---- MODULE Spec2Model ----
(***************************************************************************)
(* Loan-application workflow: the orchestrator (master) stage, the four    *)
(* specialist stages, the router and the session manager of                *)
(* src/workflow/graph.py, with the record helpers of src/workflow/state.py *)
(* and the decision table of src/agents/master_agent.py.                   *)
(***************************************************************************)
EXTENDS Integers, Sequences, FiniteSets, TLC

None == "None"

(***************************************************************************)
(* TEXT.  An inbound text is named by a string; Chars gives its            *)
(* characters, on which the keyword tests and regular expressions of the   *)
(* code are evaluated.                                                     *)
(***************************************************************************)
Chars ==
     ("hello" :> <<"h","e","l","l","o">>)
  @@ ("I need a loan" :> <<"I"," ","n","e","e","d"," ","a"," ","l","o","a","n">>)
  @@ ("I need a loan of 3 lakhs" :> <<"I"," ","n","e","e","d"," ","a"," ","l","o","a","n"," ","o","f"," ","3"," ","l","a","k","h","s">>)
  @@ ("proceed" :> <<"p","r","o","c","e","e","d">>)
  @@ ("option 2" :> <<"o","p","t","i","o","n"," ","2">>)
  @@ ("reduce the rate" :> <<"r","e","d","u","c","e"," ","t","h","e"," ","r","a","t","e">>)
  @@ ("SEND OTP" :> <<"S","E","N","D"," ","O","T","P">>)
  @@ ("123456" :> <<"1","2","3","4","5","6">>)
  @@ ("4321" :> <<"4","3","2","1">>)
  @@ ("my otp is 123456" :> <<"m","y"," ","o","t","p"," ","i","s"," ","1","2","3","4","5","6">>)
  @@ ("PAN: ABCDE1234F | DOB: 1990-05-10 | Email: a@b.co" :> <<"P","A","N",":"," ","A","B","C","D","E","1","2","3","4","F"," ","|"," ","D","O","B",":"," ","1","9","9","0","-","0","5","-","1","0"," ","|"," ","E","m","a","i","l",":"," ","a","@","b",".","c","o">>)
  @@ ("Address: 5 MG Road" :> <<"A","d","d","r","e","s","s",":"," ","5"," ","M","G"," ","R","o","a","d">>)
  @@ ("proceed with option 2 at a lower rate" :> <<"p","r","o","c","e","e","d"," ","w","i","t","h"," ","o","p","t","i","o","n"," ","2"," ","a","t"," ","a"," ","l","o","w","e","r"," ","r","a","t","e">>)
  @@ ("Address: 5 MG Road, send otp" :> <<"A","d","d","r","e","s","s",":"," ","5"," ","M","G"," ","R","o","a","d",","," ","s","e","n","d"," ","o","t","p">>)
  @@ ("I need 3 lakh rupees" :> <<"I"," ","n","e","e","d"," ","3"," ","l","a","k","h"," ","r","u","p","e","e","s">>)
  @@ ("need 50k" :> <<"n","e","e","d"," ","5","0","k">>)
  @@ ("requesting 250000" :> <<"r","e","q","u","e","s","t","i","n","g"," ","2","5","0","0","0","0">>)
  @@ ("I need 2 loans" :> <<"I"," ","n","e","e","d"," ","2"," ","l","o","a","n","s">>)
  @@ ("Uploaded salary slip successfully" :> <<"U","p","l","o","a","d","e","d"," ","s","a","l","a","r","y"," ","s","l","i","p"," ","s","u","c","c","e","s","s","f","u","l","l","y">>)

UpperSeq == <<"A","B","C","D","E","F","G","H","I","J","K","L","M",
              "N","O","P","Q","R","S","T","U","V","W","X","Y","Z">>
LowerSeq == <<"a","b","c","d","e","f","g","h","i","j","k","l","m",
              "n","o","p","q","r","s","t","u","v","w","x","y","z">>
DigitSeq == <<"0","1","2","3","4","5","6","7","8","9">>

UpperCh == {UpperSeq[x] : x \in DOMAIN UpperSeq}
LowerCh == {LowerSeq[x] : x \in DOMAIN LowerSeq}
DigitCh == {DigitSeq[x] : x \in DOMAIN DigitSeq}
SpaceCh == {" "}
WordCh == UpperCh \cup LowerCh \cup DigitCh \cup {"_"}
AnyCh == WordCh \cup SpaceCh \cup {":", "|", "-", "/", ".", "@", "%", "+", ",", "'"}

\* str.lower() on one character and on a text
LowerOf(c) ==
  IF c \in UpperCh
     THEN LowerSeq[CHOOSE i \in 1..26 : UpperSeq[i] = c]
     ELSE c
Lower(s) == [i \in 1..Len(s) |-> LowerOf(s[i])]
UpperOf(c) ==
  IF c \in LowerCh
     THEN UpperSeq[CHOOSE i \in 1..26 : LowerSeq[i] = c]
     ELSE c
Upper(s) == [i \in 1..Len(s) |-> UpperOf(s[i])]

\* s[b..e-1], Python slice s[b:e] in 1-based positions
Slice(s, b, e) == IF e <= b THEN <<>> ELSE SubSeq(s, b, e - 1)

\* str.strip()
RECURSIVE LStrip(_)
LStrip(s) == IF s # <<>> /\ Head(s) \in SpaceCh THEN LStrip(Tail(s)) ELSE s
RECURSIVE RStrip(_)
RStrip(s) ==
  IF s # <<>> /\ s[Len(s)] \in SpaceCh THEN RStrip(SubSeq(s, 1, Len(s) - 1)) ELSE s
Strip(s) == RStrip(LStrip(s))

\* s.startswith(w) at position i
StartsAt(s, i, w) ==
  /\ i + Len(w) - 1 <= Len(s)
  /\ \A j \in 1..Len(w) : s[i + j - 1] = w[j]
StartsWith(s, w) == StartsAt(s, 1, w)
\* "w in s"
Contains(s, w) == \E i \in 1..(Len(s) + 1) : StartsAt(s, i, w)
\* s.find(w), 1-based; 0 when absent
Find(s, w) ==
  IF Contains(s, w)
     THEN CHOOSE i \in 1..(Len(s) + 1) :
            StartsAt(s, i, w) /\ \A j \in 1..(i - 1) : ~StartsAt(s, j, w)
     ELSE 0
\* any(k in s for k in ws)
AnyIn(s, ws) == \E w \in ws : Contains(s, w)

(***************************************************************************)
(* Regular expressions (Python re): a pattern is a sequence of elements,   *)
(* matched by backtracking in Python's priority order (greedy repetition   *)
(* longest first, lazy shortest first, alternatives left to right), so     *)
(* that the first match found and its groups are the ones re.search gives. *)
(***************************************************************************)
Lit(w) == [t |-> "lit", w |-> w]
Alt(ws) == [t |-> "alt", ws |-> ws]
\* x{lo,hi} greedy and lazy; hi = -1 is "no upper limit" (x*, x+, x{lo,})
Rep(cls, lo, hi) == [t |-> "rep", cls |-> cls, lo |-> lo, hi |-> hi]
Lazy(cls, lo, hi) == [t |-> "lazy", cls |-> cls, lo |-> lo, hi |-> hi]
WB == [t |-> "wb"]
Open(n) == [t |-> "open", n |-> n]
Close(n) == [t |-> "close", n |-> n]

NoGroups == <<0, 0, 0, 0>>
NoMatch == [ok |-> FALSE, b |-> 0, e |-> 0, g |-> NoGroups]

\* number of consecutive characters of s from position i that are in cls
RECURSIVE Run(_, _, _)
Run(s, i, cls) ==
  IF i <= Len(s) /\ s[i] \in cls THEN 1 + Run(s, i + 1, cls) ELSE 0

IsWordAt(s, i) == i >= 1 /\ i <= Len(s) /\ s[i] \in WordCh

MaxCount(x, s, i) ==
  IF x.hi < 0 \/ Run(s, i, x.cls) < x.hi THEN Run(s, i, x.cls) ELSE x.hi

RECURSIVE MatchFrom(_, _, _, _, _)
RECURSIVE TryAlts(_, _, _, _, _, _)
RECURSIVE TryGreedy(_, _, _, _, _, _)
RECURSIVE TryLazy(_, _, _, _, _, _, _)
MatchFrom(p, k, s, i, g) ==
  IF k > Len(p) THEN [ok |-> TRUE, b |-> 0, e |-> i, g |-> g]
  ELSE LET x == p[k] IN
    CASE x.t = "lit" ->
           IF StartsAt(s, i, x.w) THEN MatchFrom(p, k + 1, s, i + Len(x.w), g)
                                  ELSE NoMatch
      [] x.t = "alt" -> TryAlts(p, k, s, i, g, 1)
      [] x.t = "rep" -> TryGreedy(p, k, s, i, g, MaxCount(x, s, i))
      [] x.t = "lazy" -> TryLazy(p, k, s, i, g, x.lo, MaxCount(x, s, i))
      [] x.t = "wb" -> IF IsWordAt(s, i - 1) # IsWordAt(s, i) THEN MatchFrom(p, k + 1, s, i, g) ELSE NoMatch
      [] x.t = "open" -> MatchFrom(p, k + 1, s, i, [g EXCEPT ![2 * x.n - 1] = i])
      [] x.t = "close" -> MatchFrom(p, k + 1, s, i, [g EXCEPT ![2 * x.n] = i])
TryAlts(p, k, s, i, g, a) ==
  IF a > Len(p[k].ws) THEN NoMatch
  ELSE LET w == p[k].ws[a]
           r == IF StartsAt(s, i, w) THEN MatchFrom(p, k + 1, s, i + Len(w), g)
                                     ELSE NoMatch
       IN IF r.ok THEN r ELSE TryAlts(p, k, s, i, g, a + 1)
TryGreedy(p, k, s, i, g, n) ==
  IF n < p[k].lo THEN NoMatch
  ELSE LET r == MatchFrom(p, k + 1, s, i + n, g)
       IN IF r.ok THEN r ELSE TryGreedy(p, k, s, i, g, n - 1)
TryLazy(p, k, s, i, g, n, max) ==
  IF n > max THEN NoMatch
  ELSE LET r == MatchFrom(p, k + 1, s, i + n, g)
       IN IF r.ok THEN r ELSE TryLazy(p, k, s, i, g, n + 1, max)

\* re.search(p1|p2|..., s): ps is the sequence of top-level alternatives
RECURSIVE MatchBranch(_, _, _, _)
MatchBranch(ps, a, s, i) ==
  IF a > Len(ps) THEN NoMatch
  ELSE LET r == MatchFrom(ps[a], 1, s, i, NoGroups)
       IN IF r.ok THEN [r EXCEPT !.b = i] ELSE MatchBranch(ps, a + 1, s, i)
RECURSIVE SearchFrom(_, _, _)
SearchFrom(ps, s, i) ==
  IF i > Len(s) + 1 THEN NoMatch
  ELSE LET r == MatchBranch(ps, 1, s, i)
       IN IF r.ok THEN r ELSE SearchFrom(ps, s, i + 1)
Search(p, s) == SearchFrom(<<p>>, s, 1)
SearchAlt(ps, s) == SearchFrom(ps, s, 1)
\* Optional values: Nil is Python's None, Some(v) a value
Nil == <<>>
Some(v) == <<v>>
IsSet(o) == o # Nil
Val(o) == o[1]
\* m.group(n) as a slice of text s; Nil when the group did not take part
Group(r, s, n) ==
  IF r.g[2 * n - 1] = 0 \/ r.g[2 * n] = 0 THEN Nil
  ELSE Some(Slice(s, r.g[2 * n - 1], r.g[2 * n]))

\* int(digits)
DigitVal(c) == (CHOOSE i \in 1..10 : DigitSeq[i] = c) - 1
RECURSIVE ToInt(_)
ToInt(ds) ==
  IF ds = <<>> THEN 0 ELSE 10 * ToInt(SubSeq(ds, 1, Len(ds) - 1)) + DigitVal(ds[Len(ds)])
RECURSIVE Pow10(_)
Pow10(n) == IF n = 0 THEN 1 ELSE 10 * Pow10(n - 1)
\* float(txt) * mult for txt matching \d+\.?\d*, in whole rupees
FloatTimes(txt, mult) ==
  LET dot == Find(txt, <<".">>)
      ip == IF dot = 0 THEN txt ELSE Slice(txt, 1, dot)
      fp == IF dot = 0 THEN <<>> ELSE Slice(txt, dot + 1, Len(txt) + 1)
  IN ToInt(ip) * mult + (ToInt(fp) * mult) \div Pow10(Len(fp))

\* the keywords and literals of the code, as characters
Kw ==
     ("lakh" :> <<"l","a","k","h">>)
  @@ ("lakhs" :> <<"l","a","k","h","s">>)
  @@ ("lac" :> <<"l","a","c">>)
  @@ ("lacs" :> <<"l","a","c","s">>)
  @@ ("l" :> <<"l">>)
  @@ ("L" :> <<"L">>)
  @@ ("thousand" :> <<"t","h","o","u","s","a","n","d">>)
  @@ ("k" :> <<"k">>)
  @@ ("K" :> <<"K">>)
  @@ ("loan" :> <<"l","o","a","n">>)
  @@ ("money" :> <<"m","o","n","e","y">>)
  @@ ("borrow" :> <<"b","o","r","r","o","w">>)
  @@ ("need" :> <<"n","e","e","d">>)
  @@ ("want" :> <<"w","a","n","t">>)
  @@ ("proceed" :> <<"p","r","o","c","e","e","d">>)
  @@ ("go ahead" :> <<"g","o"," ","a","h","e","a","d">>)
  @@ ("accept" :> <<"a","c","c","e","p","t">>)
  @@ ("let's go" :> <<"l","e","t","'","s"," ","g","o">>)
  @@ ("lets go" :> <<"l","e","t","s"," ","g","o">>)
  @@ ("confirm" :> <<"c","o","n","f","i","r","m">>)
  @@ ("finalize" :> <<"f","i","n","a","l","i","z","e">>)
  @@ ("book" :> <<"b","o","o","k">>)
  @@ ("i agree" :> <<"i"," ","a","g","r","e","e">>)
  @@ ("looks good" :> <<"l","o","o","k","s"," ","g","o","o","d">>)
  @@ ("option" :> <<"o","p","t","i","o","n">>)
  @@ ("year" :> <<"y","e","a","r">>)
  @@ ("years" :> <<"y","e","a","r","s">>)
  @@ ("yr" :> <<"y","r">>)
  @@ ("yrs" :> <<"y","r","s">>)
  @@ ("month" :> <<"m","o","n","t","h">>)
  @@ ("months" :> <<"m","o","n","t","h","s">>)
  @@ ("rate" :> <<"r","a","t","e">>)
  @@ ("reduce" :> <<"r","e","d","u","c","e">>)
  @@ ("discount" :> <<"d","i","s","c","o","u","n","t">>)
  @@ ("lower" :> <<"l","o","w","e","r">>)
  @@ ("cheaper" :> <<"c","h","e","a","p","e","r">>)
  @@ ("negotiate" :> <<"n","e","g","o","t","i","a","t","e">>)
  @@ ("negotiation" :> <<"n","e","g","o","t","i","a","t","i","o","n">>)
  @@ ("emi" :> <<"e","m","i">>)
  @@ ("send otp" :> <<"s","e","n","d"," ","o","t","p">>)
  @@ ("resend otp" :> <<"r","e","s","e","n","d"," ","o","t","p">>)
  @@ ("send the otp" :> <<"s","e","n","d"," ","t","h","e"," ","o","t","p">>)
  @@ ("otp please" :> <<"o","t","p"," ","p","l","e","a","s","e">>)
  @@ ("otp" :> <<"o","t","p">>)
  @@ ("address:" :> <<"a","d","d","r","e","s","s",":">>)
  @@ ("my address is" :> <<"m","y"," ","a","d","d","r","e","s","s"," ","i","s">>)
  @@ ("address is" :> <<"a","d","d","r","e","s","s"," ","i","s">>)
  @@ ("is" :> <<"i","s">>)
  @@ ("street" :> <<"s","t","r","e","e","t">>)
  @@ ("road" :> <<"r","o","a","d">>)
  @@ ("lane" :> <<"l","a","n","e">>)
  @@ ("block" :> <<"b","l","o","c","k">>)
  @@ ("sector" :> <<"s","e","c","t","o","r">>)
  @@ ("city" :> <<"c","i","t","y">>)
  @@ ("pincode" :> <<"p","i","n","c","o","d","e">>)
  @@ ("pin" :> <<"p","i","n">>)
  @@ ("pan" :> <<"p","a","n">>)
  @@ ("aadhaar" :> <<"a","a","d","h","a","a","r">>)
  @@ ("aadhar" :> <<"a","a","d","h","a","r">>)
  @@ ("dob" :> <<"d","o","b">>)
  @@ ("email" :> <<"e","m","a","i","l">>)
  @@ ("alt" :> <<"a","l","t">>)
  @@ ("alternate" :> <<"a","l","t","e","r","n","a","t","e">>)
  @@ ("phone" :> <<"p","h","o","n","e">>)
  @@ ("%" :> <<"%">>)
  @@ ("+91" :> <<"+","9","1">>)

Kws(names) == {Kw[n] : n \in names}

(***************************************************************************)
(* RECORD (src/workflow/state.py).  Optional[str] fields hold a string or  *)
(* None; optional numbers and texts hold Nil or Some(v).  Timestamps are a *)
(* logical clock: every update_state advances updated_at.  The numeric     *)
(* artefacts that no decision reads (rates, instalments, scores, approved  *)
(* amount) are left out.                                                   *)
(***************************************************************************)
create_initial_state(customer_id, session_id) ==
  [ customer_id |-> customer_id,
    customer_phone |-> Nil,
    conversation_history |-> <<>>,
    current_stage |-> "greeting",
    active_agent |-> "master",
    next_action |-> None,
    requested_amount |-> Nil,
    tenure_months |-> Nil,
    customer_needs |-> None,
    recommended_offers |-> <<>>,
    selected_offer |-> Nil,
    kyc_verified |-> FALSE,
    kyc_pan |-> Nil,
    kyc_aadhaar_last4 |-> Nil,
    kyc_dob |-> Nil,
    kyc_email |-> Nil,
    alt_phone |-> Nil,
    phone_verified |-> FALSE,
    address_verified |-> FALSE,
    otp_sent |-> FALSE,
    otp_attempts |-> 0,
    otp_provider |-> None,
    otp_code |-> Nil,
    otp_phone |-> Nil,
    otp_resend_count |-> 0,
    salary_slip_uploaded |-> FALSE,
    underwriting_decision |-> "pending",
    sanction_letter_url |-> None,
    application_status |-> "in_progress",
    session_id |-> session_id,
    created_at |-> 0,
    updated_at |-> 0,
    total_interactions |-> 0,
    last_error |-> None ]

\* an update that counts itself as an interaction
update_state_Counts(state, updates) ==
  [f \in DOMAIN state |->
     IF f = "updated_at" THEN state.updated_at + 1
     ELSE IF f \in DOMAIN updates THEN updates[f]
     ELSE IF f = "total_interactions" THEN state.total_interactions + 1
     ELSE state[f]]
\* {**state, **updates} with updated_at refreshed
update_state(state, updates) ==
  [f \in DOMAIN state |->
     IF f = "updated_at" THEN state.updated_at + 1
     ELSE IF f \in DOMAIN updates THEN updates[f]
     ELSE state[f]]

ConversationMessage(role, content, agent) ==
  [role |-> role, content |-> content, agent |-> agent]

\* an add_message that leaves the counter alone
add_message_NoCount(state, role, content, agent) ==
  update_state(state,
    [conversation_history |->
        Append(state.conversation_history, ConversationMessage(role, content, agent))])
add_message(state, role, content, agent) ==
  update_state(state,
    [conversation_history |->
        Append(state.conversation_history, ConversationMessage(role, content, agent)),
     total_interactions |-> state.total_interactions + 1])

\* Python truthiness of optional numbers and optional texts
TruthyNum(o) == IsSet(o) /\ Val(o) # 0
TruthyText(o) == IsSet(o) /\ Val(o) # <<>>
TruthyStr(x) == x # None /\ x # ""

(***************************************************************************)
(* ORCHESTRATOR DECISION TABLE (src/agents/master_agent.py)                *)
(***************************************************************************)
AmountNumber ==
  <<Open(1), Rep(DigitCh, 1, -1), Rep({"."}, 0, 1), Rep(DigitCh, 0, -1), Close(1),
    Rep(SpaceCh, 0, -1)>>
\* the (pattern, multiplier) list of the greeting stage, in the code's order
amount_patterns ==
  << [p |-> AmountNumber \o <<Alt(<<Kw["lakh"], Kw["lakhs"], Kw["lac"], Kw["lacs"]>>)>>,
      mult |-> 100000],
     [p |-> AmountNumber \o <<Alt(<<Kw["l"], Kw["L"]>>)>>, mult |-> 100000],
     [p |-> AmountNumber \o <<Alt(<<Kw["thousand"], Kw["k"], Kw["K"]>>)>>, mult |-> 1000],
     [p |-> <<Open(1), Rep(DigitCh, 4, -1), Close(1)>>, mult |-> 1] >>

\* for pattern, mult in patterns: first pattern that matches anywhere wins
RECURSIVE FirstAmount(_, _, _)
FirstAmount(pats, k, text) ==
  IF k > Len(pats) THEN Nil
  ELSE LET m == Search(pats[k].p, text)
       IN IF m.ok THEN Some(FloatTimes(Val(Group(m, text, 1)), pats[k].mult))
                  ELSE FirstAmount(pats, k + 1, text)
\* an amount reader that takes a lakh for a thousand
detect_amount_Thousands(user_message_lower) ==
  FirstAmount(<<[p |-> amount_patterns[1].p, mult |-> 1000]>>, 1, user_message_lower)
detect_amount(user_message_lower) == FirstAmount(amount_patterns, 1, user_message_lower)

intent_words == Kws({"loan", "money", "borrow", "need", "want"})
amount_match_pattern ==
  <<Open(1), Rep(DigitCh, 1, -1), Close(1), Rep(SpaceCh, 0, -1),
    Open(2), Alt(<<Kw["lakh"], Kw["lakhs"], Kw["thousand"], Kw["k"], Kw["lac"]>>), Close(2)>>
accept_terms ==
  Kws({"proceed", "go ahead", "accept", "let's go", "lets go",
       "confirm", "finalize", "book", "i agree", "looks good"})
option_1_9_pattern ==
  <<Lit(Kw["option"]), Rep(SpaceCh, 0, -1), Rep(DigitCh \ {"0"}, 1, 1)>>
tenure_pattern ==
  <<WB, Open(1), Rep(DigitCh, 1, -1), Close(1), Rep(SpaceCh, 0, -1),
    Open(2), Alt(<<Kw["year"], Kw["years"], Kw["yr"], Kw["yrs"], Kw["month"], Kw["months"]>>),
    Close(2), WB>>
negotiation_cues ==
  Kws({"rate", "reduce", "discount", "lower", "cheaper", "negotiate", "negotiation", "emi"})
percent_pattern == <<Rep(DigitCh, 1, -1), Rep(SpaceCh, 0, -1), Lit(Kw["%"])>>
master_otp_keywords == Kws({"send otp", "otp", "resend otp", "send the otp"})
code_pattern == <<WB, Open(1), Rep(DigitCh, 4, 6), Close(1), WB>>

Decision(next_action, new_stage, requested_amount) ==
  [next_action |-> next_action, new_stage |-> new_stage,
   requested_amount |-> requested_amount]

\* the greeting stage once the amount patterns have been tried
GreetingDecision(user_message_lower, amt, keep) ==
  IF TruthyNum(amt)
    THEN Decision("delegate_to_sales", "sales_negotiation", amt)
  ELSE IF AnyIn(user_message_lower, intent_words)
    THEN Decision(None, "needs_assessment", keep)
  ELSE Decision(None, "greeting", keep)

\* _determine_next_action: (next_action, new_stage), with the amount hint it
\* writes into the record in place (keep: the amount already on the record)
Decide(current_stage, user_message_lower, state, keep) ==
  CASE current_stage = "greeting" ->
         IF TruthyNum(state.requested_amount)
           THEN Decision("delegate_to_sales", "sales_negotiation", keep)
         ELSE GreetingDecision(user_message_lower, detect_amount(user_message_lower), keep)
    [] current_stage = "needs_assessment" ->
         IF TruthyNum(state.requested_amount)
           THEN Decision("delegate_to_sales", "sales_negotiation", keep)
         ELSE IF Search(amount_match_pattern, user_message_lower).ok
           THEN Decision("delegate_to_sales", "sales_negotiation", keep)
         ELSE Decision(None, "needs_assessment", keep)
    [] current_stage = "sales_negotiation" ->
         IF AnyIn(user_message_lower, accept_terms)
           THEN Decision("delegate_to_verification", "verification", keep)
         ELSE IF \/ Search(option_1_9_pattern, user_message_lower).ok
                 \/ Search(tenure_pattern, user_message_lower).ok
           THEN Decision("delegate_to_sales", "sales_negotiation", keep)
         ELSE IF \/ AnyIn(user_message_lower, negotiation_cues)
                 \/ Search(percent_pattern, user_message_lower).ok
           THEN Decision("delegate_to_sales", "sales_negotiation", keep)
         ELSE Decision(None, "sales_negotiation", keep)
    [] current_stage = "verification" ->
         IF AnyIn(user_message_lower, master_otp_keywords)
           THEN Decision("delegate_to_verification", "verification", keep)
         ELSE IF state.otp_sent /\ Search(code_pattern, user_message_lower).ok
           THEN Decision("delegate_to_verification", "verification", keep)
         ELSE IF state.kyc_verified /\ state.phone_verified
           THEN Decision("delegate_to_underwriting", "underwriting", keep)
         ELSE Decision(None, "verification", keep)
    [] current_stage = "underwriting" ->
         IF state.underwriting_decision = "needs_documents"
           THEN Decision(None, "document_upload", keep)
         ELSE IF state.underwriting_decision = "approved"
           THEN Decision("delegate_to_sanction", "sanction_generation", keep)
         ELSE IF state.underwriting_decision = "rejected"
           THEN Decision(None, "closure", keep)
         ELSE Decision(None, "underwriting", keep)
    [] current_stage = "document_upload" ->
         IF state.salary_slip_uploaded
           THEN Decision("delegate_to_underwriting", "underwriting", keep)
           ELSE Decision(None, "document_upload", keep)
    [] current_stage = "sanction_generation" ->
         IF TruthyStr(state.sanction_letter_url)
           THEN Decision(None, "closure", keep)
           ELSE Decision(None, "sanction_generation", keep)
    [] current_stage = "closure" -> Decision(None, "closure", keep)
    [] OTHER -> Decision(None, current_stage, keep)

\* a rule set that looks for an option selection before an acceptance
determine_next_action_SelectionFirst(current_stage, user_message, state) ==
  IF /\ current_stage = "sales_negotiation"
     /\ Search(option_1_9_pattern, Lower(user_message)).ok
    THEN Decision("delegate_to_sales", "sales_negotiation", state.requested_amount)
    ELSE Decide(current_stage, Lower(user_message), state, state.requested_amount)
\* a rule set that leaves verification as soon as the identity is verified
determine_next_action_KycOnly(current_stage, user_message, state) ==
  IF /\ current_stage = "verification"
     /\ state.kyc_verified
     /\ ~AnyIn(Lower(user_message), master_otp_keywords)
    THEN Decision("delegate_to_underwriting", "underwriting", state.requested_amount)
    ELSE Decide(current_stage, Lower(user_message), state, state.requested_amount)
\* a rule set that sends every assessed record without a document request
\* to the sanction stage
determine_next_action_SanctionsAll(current_stage, user_message, state) ==
  IF /\ current_stage = "underwriting"
     /\ state.underwriting_decision # "needs_documents"
    THEN Decision("delegate_to_sanction", "sanction_generation", state.requested_amount)
    ELSE Decide(current_stage, Lower(user_message), state, state.requested_amount)
\* a rule set that reopens a closed application on an acceptance phrase
determine_next_action_Reopens(current_stage, user_message, state) ==
  IF /\ current_stage = "closure"
     /\ AnyIn(Lower(user_message), accept_terms)
    THEN Decision("delegate_to_sales", "sales_negotiation", state.requested_amount)
    ELSE Decide(current_stage, Lower(user_message), state, state.requested_amount)
\* a rule set that sends a verified record straight to the sanction stage
determine_next_action_SkipsUnderwriting(current_stage, user_message, state) ==
  IF /\ current_stage = "verification"
     /\ state.kyc_verified /\ state.phone_verified
    THEN Decision("delegate_to_sanction", "sanction_generation", state.requested_amount)
    ELSE Decide(current_stage, Lower(user_message), state, state.requested_amount)
determine_next_action(current_stage, user_message, state) ==
  Decide(current_stage, Lower(user_message), state, state.requested_amount)

\* MasterAgent.process_message once the generation collaborator has answered
MasterResult(d) ==
  [response |-> "llm_reply", next_action |-> d.next_action,
   new_stage |-> d.new_stage, requested_amount |-> d.requested_amount]
master_process_message(state, user_message) ==
  MasterResult(determine_next_action(state.current_stage, user_message, state))

(***************************************************************************)
(* STAGE NODES (src/workflow/graph.py)                                     *)
(***************************************************************************)
LastMessage(state) == state.conversation_history[Len(state.conversation_history)]

\* master_agent_node; llm_ok: the generation collaborator answered.  The
\* result is the node's returned state, or Raised when llm.invoke raises.
Raised == [raised |-> TRUE]
\* a master node that appends its reply twice
MasterReply_Twice(state, result) ==
  update_state(
    add_message(
      add_message([state EXCEPT !.requested_amount = result.requested_amount],
                  "assistant", result.response, "master"),
      "assistant", result.response, "master"),
    [current_stage |-> result.new_stage,
     next_action |-> result.next_action,
     active_agent |-> "master"])
\* a master node that sets cursor and directive without appending its reply
MasterReply_Silent(state, result) ==
  update_state(
    [state EXCEPT !.requested_amount = result.requested_amount],
    [current_stage |-> result.new_stage,
     next_action |-> result.next_action,
     active_agent |-> "master"])
\* lines 46-54: the reply is appended, then cursor and directive are set
MasterReply(state, result) ==
  update_state(
    add_message([state EXCEPT !.requested_amount = result.requested_amount],
                "assistant", result.response, "master"),
    [current_stage |-> result.new_stage,
     next_action |-> result.next_action,
     active_agent |-> "master"])
master_agent_node(state, llm_ok) ==
  IF state.conversation_history # <<>>
    THEN IF LastMessage(state).role = "user"
      THEN IF ~llm_ok THEN Raised
           ELSE MasterReply(state,
                            master_process_message(state, Chars[LastMessage(state).content]))
      ELSE state
    ELSE add_message(state, "assistant", "greeting", "master")

\* the last user message of the log: Nil when there is none
RECURSIVE LastUserFrom(_, _)
LastUserFrom(h, i) ==
  IF i = 0 THEN Nil
  ELSE IF h[i].role = "user" THEN Some(Chars[h[i].content])
  ELSE LastUserFrom(h, i - 1)
LastUserContent(state) ==
  LastUserFrom(state.conversation_history, Len(state.conversation_history))

\* ---- sales ----
option_n_pattern ==
  <<Lit(Kw["option"]), Rep(SpaceCh, 0, -1), Open(1), Rep(DigitCh, 1, -1), Close(1)>>
\* min(offers, key=lambda o: abs(o.tenure_months - months)): the first minimum
ClosestTenure(offers, months) ==
  LET d(i) == IF offers[i].tenure_months < months
                THEN months - offers[i].tenure_months
                ELSE offers[i].tenure_months - months
      best == CHOOSE i \in 1..Len(offers) :
                /\ \A j \in 1..Len(offers) : d(i) <= d(j)
                /\ \A j \in 1..(i - 1) : d(j) > d(i)
  IN offers[best]
\* the offer the user selected by option number or tenure: Nil when none
SelectedOffer(state, last_user_msg) ==
  LET offers == state.recommended_offers
      opt_match == Search(option_n_pattern, last_user_msg)
      ten_match == Search(tenure_pattern, last_user_msg)
  IN IF opt_match.ok /\ offers # <<>>
       THEN LET n == ToInt(Val(Group(opt_match, last_user_msg, 1)))
                idx == IF n - 1 < 0 THEN 0
                       ELSE IF n - 1 < Len(offers) - 1 THEN n - 1 ELSE Len(offers) - 1
            IN Some(offers[idx + 1])
     ELSE IF ten_match.ok /\ offers # <<>>
       THEN LET n == ToInt(Val(Group(ten_match, last_user_msg, 1)))
                unit == Val(Group(ten_match, last_user_msg, 2))
                months == IF StartsWith(unit, <<"y">>) THEN n * 12 ELSE n
            IN Some(ClosestTenure(offers, months))
     ELSE Nil

\* (last_user_msg or "").lower() of the sales node: <<>> when there is none
SalesUserMsg(state) ==
  IF IsSet(LastUserContent(state)) THEN Lower(Val(LastUserContent(state))) ELSE <<>>

\* which of its four branches the sales node takes (lines 73, 108, 141, 148)
SalesBranch(state, last_user_msg) ==
  IF last_user_msg # <<>> /\ IsSet(SelectedOffer(state, last_user_msg))
    THEN "selection"
  ELSE IF /\ last_user_msg # <<>>
          /\ state.recommended_offers # <<>>
          /\ \/ AnyIn(last_user_msg, negotiation_cues)
             \/ Search(percent_pattern, last_user_msg).ok
    THEN "negotiation"
  ELSE IF ~TruthyNum(state.requested_amount) THEN "ask_amount"
  ELSE "offers"
SalesPath(state) == SalesBranch(state, SalesUserMsg(state))

SalesSelect(state, selected) ==
  update_state(add_message(state, "assistant", "selection_confirmed", "sales"),
    [selected_offer |-> selected,
     tenure_months |-> Some(Val(selected).tenure_months),
     active_agent |-> "master",
     next_action |-> None])

\* sales_agent_node; result: what process_sales returns
sales_agent_node(state, result) ==
  CASE SalesPath(state) = "selection" ->
         SalesSelect(state, SelectedOffer(state, SalesUserMsg(state)))
    [] SalesPath(state) = "negotiation" ->
         update_state(add_message(state, "assistant", "negotiation_reply", "sales"),
                      [active_agent |-> "master", next_action |-> None])
    [] SalesPath(state) = "ask_amount" ->
         update_state(add_message(state, "assistant", "ask_amount", "sales"),
                      [active_agent |-> "master", next_action |-> None])
    [] OTHER ->
         IF result.success
           THEN update_state(
                  add_message(state, "assistant", "offers_presentation", "sales"),
                  [recommended_offers |-> result.offers,
                   tenure_months |-> Some(result.recommended_offer.tenure_months),
                   active_agent |-> "master",
                   next_action |-> None])
           ELSE update_state(state,
                  [active_agent |-> "master", next_action |-> None,
                   last_error |-> result.error])

\* ---- verification ----
\* The customer registry behind get_customer_by_id, and the phone it holds
CrmCustomers == {"CUST001"}
CrmPhone == <<"9","8","7","6","5","4","3","2","1","0">>
\* the codes the local fallback may issue
IssuableCodes == {<<"1","2","3","4","5","6">>, <<"6","5","4","3","2","1">>}

\* VerificationAgent.start_verification
start_verification(state) ==
  IF ~TruthyStr(state.customer_id)
    THEN [success |-> FALSE, error |-> "Customer ID not available", customer_data |-> Nil]
  ELSE IF state.customer_id \notin CrmCustomers
    THEN [success |-> FALSE, error |-> "Customer not found", customer_data |-> Nil]
  ELSE [success |-> TRUE, error |-> None, customer_data |-> Some([phone |-> CrmPhone])]

node_otp_keywords == Kws({"send otp", "resend otp", "send the otp", "otp please", "otp"})
address_words == Kws({"street", "road", "lane", "block", "sector", "city", "pincode", "pin"})

\* remove every space: str.replace(" ", "")
RECURSIVE NoSpaces(_)
NoSpaces(s) ==
  IF s = <<>> THEN <<>>
  ELSE IF Head(s) = " " THEN NoSpaces(Tail(s)) ELSE <<Head(s)>> \o NoSpaces(Tail(s))
\* the phone the code is sent to, normalised (10 digits -> +91...)
OtpPhone(state) ==
  LET customer == start_verification(state).customer_data
      phone == IF TruthyText(state.otp_phone) THEN state.otp_phone
               ELSE IF IsSet(customer) THEN Some(Val(customer).phone)
               ELSE state.customer_phone
  IN IF TruthyText(phone)
       THEN LET raw == NoSpaces(Strip(Val(phone)))
                isdigit == raw # <<>> /\ \A i \in 1..Len(raw) : raw[i] \in DigitCh
            IN IF isdigit /\ Len(raw) = 10 THEN Some(Kw["+91"] \o raw) ELSE Some(raw)
       ELSE phone

ResendCount(state) ==
  IF state.otp_sent THEN state.otp_resend_count + 1 ELSE state.otp_resend_count

\* lines 208-252: a code request; env.twilio: is_twilio_configured(),
\* env.send_ok: otp_send_api succeeded, env.otp: the code the fallback issued
\* a code request that keeps the code on the record whoever issued it
SendOtpTo_KeepsCode(state, env, phone) ==
  update_state(
    add_message(state, "assistant", "otp_sent_demo", "verification"),
    [otp_sent |-> TRUE,
     otp_provider |-> IF env.twilio THEN "twilio" ELSE "demo",
     otp_code |-> Some(env.otp),
     otp_phone |-> phone,
     otp_attempts |-> 0,
     otp_resend_count |-> ResendCount(state),
     active_agent |-> "master",
     next_action |-> None])
SendOtpTo(state, env, phone) ==
  IF env.twilio
    THEN update_state(
           add_message(state, "assistant",
                       IF env.send_ok THEN "otp_sent_twilio" ELSE "otp_send_failed",
                       "verification"),
           [otp_sent |-> env.send_ok,
            otp_provider |-> IF env.send_ok THEN "twilio" ELSE None,
            otp_code |-> Nil,
            otp_phone |-> phone,
            otp_attempts |-> 0,
            otp_resend_count |-> ResendCount(state),
            active_agent |-> "master",
            next_action |-> None])
    ELSE update_state(
           add_message(state, "assistant", "otp_sent_demo", "verification"),
           [otp_sent |-> TRUE,
            otp_provider |-> "demo",
            otp_code |-> Some(env.otp),
            otp_phone |-> phone,
            otp_attempts |-> 0,
            otp_resend_count |-> ResendCount(state),
            active_agent |-> "master",
            next_action |-> None])
SendOtp(state, env) == SendOtpTo(state, env, OtpPhone(state))

\* lines 254-338: a 4-6 digit token in the message; env.check: what
\* otp_verify_api answers ("approved", "denied" or "error")
EnteredCode(last_user_msg) ==
  Group(Search(code_pattern, last_user_msg), last_user_msg, 1)
CheckCode(state, entered_code, env, attempts, verified, done) ==
  IF /\ state.otp_sent
          /\ state.otp_provider = "twilio"
          /\ TruthyText(state.otp_phone)
          /\ TruthyText(entered_code)
    THEN IF env.check = "approved"
           THEN update_state(add_message(state, "assistant", "phone_verified", "verification"),
                             verified)
         ELSE IF attempts >= 3
           THEN update_state(add_message(state, "assistant", "max_attempts", "verification"),
                  [otp_sent |-> FALSE, otp_attempts |-> 0,
                   active_agent |-> "master", next_action |-> None])
         ELSE update_state(add_message(state, "assistant", "incorrect_otp", "verification"),
                  [otp_attempts |-> attempts,
                   active_agent |-> "master", next_action |-> None])
  ELSE IF state.otp_sent /\ TruthyText(state.otp_code)
    THEN IF entered_code = state.otp_code
           THEN update_state(add_message(state, "assistant", "phone_verified", "verification"),
                             verified)
         ELSE IF attempts >= 3
           THEN update_state(add_message(state, "assistant", "max_attempts", "verification"),
                  [otp_sent |-> FALSE, otp_code |-> Nil, otp_attempts |-> 0,
                   active_agent |-> "master", next_action |-> None])
         ELSE update_state(add_message(state, "assistant", "incorrect_otp", "verification"),
                  [otp_attempts |-> attempts,
                   active_agent |-> "master", next_action |-> None])
  ELSE update_state(add_message(state, "assistant", "no_otp_found", "verification"), done)
\* a code check that leaves the attempt count alone when the code is right
VerifyCode_KeepsCount(state, last_user_msg, env) ==
  IF last_user_msg # <<>> /\ Search(code_pattern, last_user_msg).ok
    THEN CheckCode(state, EnteredCode(last_user_msg), env, state.otp_attempts + 1,
                   [phone_verified |-> TRUE, otp_sent |-> FALSE, otp_code |-> Nil,
                    active_agent |-> "master", next_action |-> None],
                   [active_agent |-> "master", next_action |-> None])
    ELSE state
VerifyCode(state, last_user_msg, env) ==
  IF last_user_msg # <<>> /\ Search(code_pattern, last_user_msg).ok
    THEN CheckCode(state, EnteredCode(last_user_msg), env, state.otp_attempts + 1,
                   [phone_verified |-> TRUE, otp_sent |-> FALSE, otp_code |-> Nil,
                    otp_attempts |-> 0, active_agent |-> "master", next_action |-> None],
                   [active_agent |-> "master", next_action |-> None])
    ELSE state

\* lines 340-353: the address the message gives; Nil when none.  The split
\* on "is" is made on the message as typed: AddressRaises when it has none.
AddressRaises(last_user_msg) ==
  LET lower == Lower(last_user_msg) IN
  /\ ~StartsWith(lower, Kw["address:"])
  /\ StartsWith(lower, Kw["my address is"])
  /\ ~Contains(last_user_msg, Kw["is"])
AddressText(last_user_msg) ==
  LET lower == Lower(last_user_msg)
      n == Len(last_user_msg)
      first ==
        IF StartsWith(lower, Kw["address:"])
          THEN Strip(Slice(last_user_msg, Find(last_user_msg, <<":">>) + 1, n + 1))
        ELSE IF StartsWith(lower, Kw["my address is"])
          THEN Strip(Slice(last_user_msg, Find(last_user_msg, Kw["is"]) + 2, n + 1))
        ELSE IF Contains(lower, Kw["address is"])
          THEN Strip(Slice(last_user_msg,
                           Find(lower, Kw["address is"]) + Len(Kw["address is"]), n + 1))
        ELSE <<>>
  IN IF first = <<>> /\ AnyIn(lower, address_words) /\ n > 10
       THEN Strip(last_user_msg)
       ELSE first

\* lines 354-360; env.addr_ok: verify_address found the address to match
VerifyAddress(state, last_user_msg, env) ==
  IF last_user_msg # <<>> /\ AddressText(last_user_msg) # <<>> /\ TruthyStr(state.customer_id)
    THEN update_state(
           add_message(state, "assistant",
                       IF env.addr_ok THEN "address_verified" ELSE "address_mismatch",
                       "verification"),
           IF env.addr_ok
             THEN [active_agent |-> "master", next_action |-> None, address_verified |-> TRUE]
             ELSE [active_agent |-> "master", next_action |-> None])
    ELSE state

\* lines 362-368: the identity patterns (re.IGNORECASE: matched on the
\* lower-cased text, groups taken from the text as typed)
AlnumLower == LowerCh \cup DigitCh
Sep == <<Rep(SpaceCh, 0, -1), Rep({":", "-"}, 0, 1), Rep(SpaceCh, 0, -1)>>
pan_pattern ==
  <<WB, Lit(Kw["pan"])>> \o Sep \o
  <<Open(1), Rep(LowerCh, 5, 5), Rep(DigitCh, 4, 4), Rep(LowerCh, 1, 1), Close(1), WB>>
aadhaar_branches ==
  << <<WB, Lit(Kw["aadhaar"])>>,
     <<Lit(Kw["aadhar"]), WB, Lazy(AnyCh, 0, -1), Open(1), Rep(DigitCh, 4, 4), Close(1)>> >>
dob_branches ==
  << <<WB, Lit(Kw["dob"])>> \o Sep \o
       <<Open(1), Rep(DigitCh, 4, 4), Lit(<<"-">>), Rep(DigitCh, 2, 2), Lit(<<"-">>),
         Rep(DigitCh, 2, 2), Close(1), WB>>,
     <<WB, Lit(Kw["dob"])>> \o Sep \o
       <<Open(1), Rep(DigitCh, 2, 2), Lit(<<"/">>), Rep(DigitCh, 2, 2), Lit(<<"/">>),
         Rep(DigitCh, 4, 4), Close(1), WB>> >>
email_pattern ==
  <<WB, Lit(Kw["email"])>> \o Sep \o
  <<Open(1), Rep(AlnumLower \cup {".", "_", "%", "+", "-"}, 1, -1), Lit(<<"@">>),
    Rep(AlnumLower \cup {".", "-"}, 1, -1), Lit(<<".">>), Rep(LowerCh, 2, -1), Close(1), WB>>
alt_phone_pattern ==
  <<WB, Open(1), Alt(<<Kw["alt"], Kw["alternate"]>>), Close(1), Rep(SpaceCh, 0, -1),
    Lit(Kw["phone"])>> \o Sep \o
  <<Open(2), Rep({"+"}, 0, 1), Rep(DigitCh, 10, 13), Close(2), WB>>

\* lines 369-389: capture what the message gives, then one message naming it
ParseKyc(state, last_user_msg) ==
  LET lower == Lower(last_user_msg)
      pan_match == Search(pan_pattern, lower)
      aad_last4 == SearchAlt(aadhaar_branches, lower)
      dob_match == SearchAlt(dob_branches, lower)
      email_match == Search(email_pattern, lower)
      alt_phone == Search(alt_phone_pattern, lower)
      any == pan_match.ok \/ aad_last4.ok \/ dob_match.ok \/ email_match.ok \/ alt_phone.ok
      updated ==
        [f \in DOMAIN state |->
           IF f = "kyc_pan" /\ pan_match.ok
             THEN Some(Upper(Val(Group(pan_match, last_user_msg, 1))))
           ELSE IF f = "kyc_aadhaar_last4" /\ aad_last4.ok
             THEN Group(aad_last4, last_user_msg, 1)
           ELSE IF f = "kyc_dob" /\ dob_match.ok THEN Group(dob_match, last_user_msg, 1)
           ELSE IF f = "kyc_email" /\ email_match.ok
             THEN Group(email_match, last_user_msg, 1)
           ELSE IF f = "alt_phone" /\ alt_phone.ok THEN Group(alt_phone, last_user_msg, 2)
           ELSE IF f = "updated_at" THEN state.updated_at + 1
           ELSE state[f]]
  IN IF last_user_msg # <<>> /\ any
       THEN add_message(updated, "assistant", "kyc_captured", "verification")
       ELSE state

\* an identity mark that does not look at the captured fields
MarkKyc_Always(state) ==
  IF ~state.kyc_verified
    THEN update_state(add_message(state, "assistant", "identity_verified", "verification"),
                      [kyc_verified |-> TRUE])
    ELSE state
\* lines 391-394
MarkKyc(state) ==
  IF ~state.kyc_verified
     /\ TruthyText(state.kyc_pan) /\ TruthyText(state.kyc_dob) /\ TruthyText(state.kyc_email)
    THEN update_state(add_message(state, "assistant", "identity_verified", "verification"),
                      [kyc_verified |-> TRUE])
    ELSE state

\* line 187: no verification signal yet
NotInitialized(state) ==
  /\ ~( \/ TruthyText(state.kyc_pan) \/ TruthyText(state.kyc_dob)
        \/ TruthyText(state.kyc_email)
        \/ state.phone_verified \/ state.address_verified )
  /\ ~state.otp_sent

\* (content or "").strip() of the verification node: <<>> when there is none
VerificationUserMsg(state) ==
  IF IsSet(LastUserContent(state)) THEN Strip(Val(LastUserContent(state))) ELSE <<>>

\* which way the verification node goes: the explainer (line 187), a code
\* request (line 209), or the checks of lines 254-396
VerificationBranch(state, last_user_msg) ==
  IF NotInitialized(state) THEN "start"
  ELSE IF /\ last_user_msg # <<>>
          /\ AnyIn(Lower(last_user_msg), node_otp_keywords)
          /\ TruthyStr(state.customer_id)
    THEN "send_otp"
  ELSE IF last_user_msg # <<>> /\ AddressRaises(last_user_msg) THEN "raise"
  ELSE "checks"
VerificationPath(state) == VerificationBranch(state, VerificationUserMsg(state))

\* lines 254-396 on the stripped last user message
VerificationChecks(state, last_user_msg, env) ==
  update_state(
    MarkKyc(ParseKyc(VerifyAddress(VerifyCode(state, last_user_msg, env),
                                   last_user_msg, env),
                     last_user_msg)),
    [active_agent |-> "master", next_action |-> None])

\* a verification node that sends the code on its first run when asked to
verification_agent_node_SendsAtOnce(state, env) ==
  CASE VerificationPath(state) = "start" ->
         IF /\ AnyIn(Lower(VerificationUserMsg(state)), node_otp_keywords)
            /\ TruthyStr(state.customer_id)
           THEN SendOtp(state, env)
         ELSE IF start_verification(state).success
           THEN update_state(
                  add_message(state, "assistant", "verification_steps", "verification"),
                  [active_agent |-> "master", next_action |-> None])
           ELSE update_state(state,
                  [active_agent |-> "master",
                   last_error |-> start_verification(state).error])
    [] VerificationPath(state) = "send_otp" -> SendOtp(state, env)
    [] VerificationPath(state) = "raise" -> Raised
    [] OTHER -> VerificationChecks(state, VerificationUserMsg(state), env)
\* verification_agent_node
verification_agent_node(state, env) ==
  CASE VerificationPath(state) = "start" ->
         IF start_verification(state).success
           THEN update_state(
                  add_message(state, "assistant", "verification_steps", "verification"),
                  [active_agent |-> "master", next_action |-> None])
           ELSE update_state(state,
                  [active_agent |-> "master",
                   last_error |-> start_verification(state).error])
    [] VerificationPath(state) = "send_otp" -> SendOtp(state, env)
    [] VerificationPath(state) = "raise" -> Raised
    [] OTHER -> VerificationChecks(state, VerificationUserMsg(state), env)

\* ---- underwriting and sanction ----
\* underwriting_agent_node; result: what process_underwriting returns
\* an underwriting node that sends an approval on to sanction itself
underwriting_agent_node_Forwards(state, result) ==
  update_state(
    add_message(state, "assistant", "underwriting_message", "underwriting"),
    [underwriting_decision |-> result.decision,
     active_agent |-> "master",
     next_action |-> IF result.decision = "approved" THEN "delegate_to_sanction" ELSE None])
underwriting_agent_node(state, result) ==
  IF result.success
    THEN LET new_state ==
               update_state(
                 add_message(state, "assistant", "underwriting_message", "underwriting"),
                 [underwriting_decision |-> result.decision,
                  active_agent |-> "master",
                  next_action |-> None])
         IN IF result.decision = "approved"
              THEN update_state(new_state, [application_status |-> "approved"])
            ELSE IF result.decision = "rejected"
              THEN update_state(new_state, [application_status |-> "rejected"])
            ELSE new_state
    ELSE update_state(state, [active_agent |-> "master", last_error |-> result.error])

\* sanction_agent_node; result: what generate_sanction returns
sanction_agent_node(state, result) ==
  IF result.success
    THEN update_state(
           add_message(state, "assistant", "sanction_message", "sanction"),
           [sanction_letter_url |-> "sanction_letter.pdf",
            current_stage |-> "closure",
            active_agent |-> "master",
            next_action |-> None])
    ELSE update_state(state, [active_agent |-> "master", last_error |-> result.error])

\* ---- router ----
\* a router that stops after an assistant message before it looks at the
\* directive
route_master_agent_StopsFirst(state) ==
  IF state.conversation_history # <<>> /\ LastMessage(state).role = "assistant"
    THEN "end"
  ELSE IF state.next_action = "delegate_to_sales" THEN "sales"
  ELSE IF state.next_action = "delegate_to_verification" THEN "verification"
  ELSE IF state.next_action = "delegate_to_underwriting" THEN "underwriting"
  ELSE IF state.next_action = "delegate_to_sanction" THEN "sanction"
  ELSE IF state.current_stage = "closure"
          /\ state.application_status \in {"approved", "rejected", "abandoned"}
    THEN "end"
  ELSE "master"
\* a router whose verification rule reads the latest user message, however
\* old
route_master_agent_Stale(state) ==
  IF state.next_action = "delegate_to_sales" THEN "sales"
  ELSE IF state.next_action = "delegate_to_verification" THEN "verification"
  ELSE IF state.next_action = "delegate_to_underwriting" THEN "underwriting"
  ELSE IF state.next_action = "delegate_to_sanction" THEN "sanction"
  ELSE IF /\ state.current_stage = "verification"
          /\ IsSet(LastUserContent(state))
          /\ \/ AnyIn(Lower(Val(LastUserContent(state))), node_otp_keywords)
             \/ state.otp_sent
                  /\ Search(code_pattern, Lower(Val(LastUserContent(state)))).ok
    THEN "verification"
  ELSE IF state.current_stage = "closure"
          /\ state.application_status \in {"approved", "rejected", "abandoned"}
    THEN "end"
  ELSE IF state.conversation_history # <<>> /\ LastMessage(state).role = "assistant"
    THEN "end"
  ELSE "master"
route_master_agent(state) ==
  LET next_action == state.next_action
      current_stage == state.current_stage
      conv == state.conversation_history
      last_user_msg == Lower(Chars[conv[Len(conv)].content])
  IN
  IF next_action = "delegate_to_sales" THEN "sales"
  ELSE IF next_action = "delegate_to_verification" THEN "verification"
  ELSE IF next_action = "delegate_to_underwriting" THEN "underwriting"
  ELSE IF next_action = "delegate_to_sanction" THEN "sanction"
  ELSE IF /\ current_stage = "verification"
          /\ conv # <<>>
          /\ conv[Len(conv)].role = "user"
          /\ \/ AnyIn(last_user_msg, node_otp_keywords)
             \/ state.otp_sent /\ Search(code_pattern, last_user_msg).ok
    THEN "verification"
  ELSE IF current_stage = "closure"
          /\ state.application_status \in {"approved", "rejected", "abandoned"}
    THEN "end"
  ELSE IF conv # <<>> /\ conv[Len(conv)].role = "assistant" THEN "end"
  ELSE "master"

(***************************************************************************)
(* SESSION MANAGER AND GRAPH EXECUTION (LoanApplicationWorkflow and the    *)
(* compiled StateGraph).  A call of process_message is a thread of control *)
(* c: it reads the stored record, appends the inbound message, runs the    *)
(* graph node by node on its own copy and stores the result.               *)
(***************************************************************************)
VARIABLES
  sessions,   \* self.sessions: session id -> stored record
  twilio,     \* is_twilio_configured(): the TWILIO_* environment
  pc,         \* per call: "idle", the node about to run, "route" or "end"
  cur,        \* per call: the graph state in flight
  pre,        \* per call: the record read at the start of the call
  arg,        \* per call: [session_id, user_message]
  trace,      \* per call: the nodes run in this cycle, in order, each with
              \* the collaborator that failed in it ("none" when none did)
  ret,        \* per call: how the last call ended
  ncalls      \* process_message calls started so far

vars == <<sessions, twilio, pc, cur, pre, arg, trace, ret, ncalls>>

\* bounds of the model
MaxCalls == 3
\* the graph's step limit: invoke() is called without a config
RecursionLimit == 25

Calls == {1, 2}
SessionIds == {"s1", "s2"}
CustomerIds == {None, "CUST001", "CUST999"}
WorkerNodes == {"sales", "verification", "underwriting", "sanction"}

Offers == <<[tenure_months |-> 12], [tenure_months |-> 24], [tenure_months |-> 36]>>
SalesResults ==
  { [success |-> TRUE, offers |-> Offers, recommended_offer |-> Offers[2], error |-> None],
    [success |-> FALSE, offers |-> <<>>, recommended_offer |-> Offers[2],
     error |-> "sales_error"] }
\* with Twilio configured the service answers the send and the check and no
\* local code is drawn; without it only the local fallback code varies
VerificationEnvs ==
  IF twilio
    THEN [twilio : {TRUE}, send_ok : BOOLEAN, otp : {Chars["123456"]},
          check : {"approved", "denied", "error"}, addr_ok : BOOLEAN]
    ELSE [twilio : {FALSE}, send_ok : {FALSE}, otp : IssuableCodes,
          check : {"error"}, addr_ok : BOOLEAN]
UnderwritingResults ==
  [success : {TRUE}, decision : {"approved", "rejected", "needs_documents"}, error : {None}]
  \cup {[success |-> FALSE, decision |-> None, error |-> "underwriting_error"]}
SanctionResults ==
  {[success |-> TRUE, error |-> None], [success |-> FALSE, error |-> "sanction_error"]}

OutcomesOf(node) ==
  CASE node = "sales" -> SalesResults
    [] node = "verification" -> VerificationEnvs
    [] node = "underwriting" -> UnderwritingResults
    [] node = "sanction" -> SanctionResults

\* the node function the graph binds to each worker name
RunWorker(node, state, out) ==
  CASE node = "sales" -> sales_agent_node(state, out)
    [] node = "verification" -> verification_agent_node(state, out)
    [] node = "underwriting" -> underwriting_agent_node(state, out)
    [] node = "sanction" -> sanction_agent_node(state, out)

\* the collaborator whose failure the worker meets on this run, "none" if none
WorkerFault(node, state, out) ==
  CASE node = "sales" ->
         IF SalesPath(state) = "offers" /\ ~out.success THEN "process_sales" ELSE "none"
    [] node = "verification" ->
         IF VerificationPath(state) = "start" /\ ~start_verification(state).success
           THEN "start_verification"
         ELSE IF VerificationPath(state) = "send_otp" /\ out.twilio /\ ~out.send_ok
           THEN "send_otp"
         ELSE "none"
    [] node = "underwriting" -> IF out.success THEN "none" ELSE "process_underwriting"
    [] node = "sanction" -> IF out.success THEN "none" ELSE "generate_sanction"

NoCall == [session_id |-> None, user_message |-> None]
NoRet == [kind |-> "none"]
Idle == [c \in Calls |-> "idle"]

Init ==
  /\ sessions = <<>>
  /\ twilio \in BOOLEAN
  /\ pc = Idle
  /\ cur = [c \in Calls |-> Nil]
  /\ pre = [c \in Calls |-> Nil]
  /\ arg = [c \in Calls |-> NoCall]
  /\ trace = [c \in Calls |-> <<>>]
  /\ ret = [c \in Calls |-> NoRet]
  /\ ncalls = 0

\* a create_session that may reuse an id already in the table
CreateSession_Reuses(customer_id, ids) ==
  /\ \E sid \in ids :
       sessions' = sid :> create_initial_state(customer_id, sid) @@ sessions
  /\ UNCHANGED <<twilio, pc, cur, pre, arg, trace, ret, ncalls>>
\* LoanApplicationWorkflow.create_session
CreateSession(customer_id, ids) ==
  /\ \E sid \in ids \ DOMAIN sessions :
       sessions' = sid :> create_initial_state(customer_id, sid) @@ sessions
  /\ UNCHANGED <<twilio, pc, cur, pre, arg, trace, ret, ncalls>>

\* LoanApplicationWorkflow.get_session_state: self.sessions.get(session_id)
get_session_state(session_id) ==
  IF session_id \in DOMAIN sessions THEN Some(sessions[session_id]) ELSE Nil

\* a process_message that starts a record for an id it does not know
Begin_StartsUnknown(c, sid, msg, max) ==
  /\ pc[c] = "idle"
  /\ ncalls < max
  /\ ncalls' = ncalls + 1
  /\ arg' = [arg EXCEPT ![c] = [session_id |-> sid, user_message |-> msg]]
  /\ trace' = [trace EXCEPT ![c] = <<>>]
  /\ \E r \in {IF sid \in DOMAIN sessions THEN sessions[sid]
                 ELSE create_initial_state(None, sid)} :
       /\ pre' = [pre EXCEPT ![c] = Some(r)]
       /\ cur' = [cur EXCEPT ![c] = Some(add_message(r, "user", msg, None))]
  /\ pc' = [pc EXCEPT ![c] = "master"]
  /\ ret' = [ret EXCEPT ![c] = NoRet]
  /\ UNCHANGED <<sessions, twilio>>
\* process_message, lines 626-636: unknown session -> rejection; else read
\* the record and append the user message
Begin(c, sid, msg, max) ==
  /\ pc[c] = "idle"
  /\ ncalls < max
  /\ ncalls' = ncalls + 1
  /\ arg' = [arg EXCEPT ![c] = [session_id |-> sid, user_message |-> msg]]
  /\ trace' = [trace EXCEPT ![c] = <<>>]
  /\ IF sid \notin DOMAIN sessions
       THEN /\ ret' = [ret EXCEPT ![c] = [kind |-> "rejected", success |-> FALSE,
                                        error |-> "Session not found"]]
            /\ pre' = [pre EXCEPT ![c] = Nil]
            /\ UNCHANGED <<pc, cur>>
       ELSE /\ pre' = [pre EXCEPT ![c] = Some(sessions[sid])]
            /\ cur' = [cur EXCEPT ![c] = Some(add_message(sessions[sid], "user", msg, None))]
            /\ pc' = [pc EXCEPT ![c] = "master"]
            /\ ret' = [ret EXCEPT ![c] = NoRet]
  /\ UNCHANGED <<sessions, twilio>>

\* an exception path that stores the record the cycle had reached
Abort_Stores(c, kind) ==
  /\ pc' = [pc EXCEPT ![c] = "idle"]
  /\ cur' = [cur EXCEPT ![c] = Nil]
  /\ ret' = [ret EXCEPT ![c] = [kind |-> kind]]
  /\ sessions' = [sessions EXCEPT ![arg[c].session_id] = Val(cur[c])]
  /\ UNCHANGED <<twilio, pre, arg, ncalls>>
\* the call ends by an exception: nothing is stored
Abort(c, kind) ==
  /\ pc' = [pc EXCEPT ![c] = "idle"]
  /\ cur' = [cur EXCEPT ![c] = Nil]
  /\ ret' = [ret EXCEPT ![c] = [kind |-> kind]]
  /\ UNCHANGED <<sessions, twilio, pre, arg, ncalls>>

\* a node raised: the exception leaves invoke() and process_message
Raise(c, node, fault, kind) ==
  /\ Abort(c, kind)
  /\ trace' = [trace EXCEPT ![c] = Append(@, [node |-> node, fault |-> fault])]

\* a node ran and returned new_state; the graph moves to position next
Step(c, node, fault, new_state, next) ==
  /\ cur' = [cur EXCEPT ![c] = Some(new_state)]
  /\ pc' = [pc EXCEPT ![c] = next]
  /\ trace' = [trace EXCEPT ![c] = Append(@, [node |-> node, fault |-> fault])]
  /\ UNCHANGED <<sessions, twilio, pre, arg, ret, ncalls>>

\* the entry node; llm_ok: whether the generation collaborator answers
Master(c) ==
  /\ pc[c] = "master"
  /\ Len(trace[c]) < RecursionLimit
  /\ \E llm_ok \in BOOLEAN :
     \E r \in {master_agent_node(Val(cur[c]), llm_ok)} :
       IF r = Raised
         THEN Raise(c, "master", "llm", "LLMError")
         ELSE Step(c, "master", "none", r, "route")

\* the conditional edge after the master node
Route(c) ==
  /\ pc[c] = "route"
  /\ pc' = [pc EXCEPT ![c] = route_master_agent(Val(cur[c]))]
  /\ UNCHANGED <<sessions, twilio, cur, pre, arg, trace, ret, ncalls>>

\* a worker node, then the edge back to the master node
Worker(c) ==
  /\ pc[c] \in WorkerNodes
  /\ Len(trace[c]) < RecursionLimit
  /\ \E out \in OutcomesOf(pc[c]) :
     \E r \in {RunWorker(pc[c], Val(cur[c]), out)} :
       IF r = Raised
         THEN Raise(c, pc[c], "raise", "Exception")
         ELSE Step(c, pc[c], WorkerFault(pc[c], Val(cur[c]), out), r, "master")

\* the step limit is reached before END: invoke() raises
RecursionError(c) ==
  /\ pc[c] \in WorkerNodes \cup {"master"}
  /\ Len(trace[c]) >= RecursionLimit
  /\ Abort(c, "GraphRecursionError")
  /\ UNCHANGED trace

\* lines 641-657: store the result and answer with the last assistant message
AssistantContents(h) ==
  SelectSeq(h, LAMBDA m : m.role = "assistant")
\* a response taken from the first assistant message of the log
LastResponse_First(state) ==
  LET a == AssistantContents(state.conversation_history)
  IN IF a = <<>> THEN "" ELSE a[1].content
LastResponse(state) ==
  LET a == AssistantContents(state.conversation_history)
  IN IF a = <<>> THEN "" ELSE a[Len(a)].content
\* a store that writes the call's record under every id of the table
Return_StoresAll(c) ==
  /\ pc[c] = "end"
  /\ sessions' = [sid \in DOMAIN sessions |-> Val(cur[c])]
  /\ ret' = [ret EXCEPT ![c] =
              [kind |-> "returned",
               success |-> TRUE,
               response |-> LastResponse(Val(cur[c])),
               state |-> Val(cur[c]),
               current_stage |-> Val(cur[c]).current_stage,
               application_status |-> Val(cur[c]).application_status]]
  /\ pc' = [pc EXCEPT ![c] = "idle"]
  /\ cur' = [cur EXCEPT ![c] = Nil]
  /\ UNCHANGED <<twilio, pre, arg, trace, ncalls>>
Return(c) ==
  /\ pc[c] = "end"
  /\ sessions' = [sessions EXCEPT ![arg[c].session_id] = Val(cur[c])]
  /\ ret' = [ret EXCEPT ![c] =
              [kind |-> "returned",
               success |-> TRUE,
               response |-> LastResponse(Val(cur[c])),
               state |-> Val(cur[c]),
               current_stage |-> Val(cur[c]).current_stage,
               application_status |-> Val(cur[c]).application_status]]
  /\ pc' = [pc EXCEPT ![c] = "idle"]
  /\ cur' = [cur EXCEPT ![c] = Nil]
  /\ UNCHANGED <<twilio, pre, arg, trace, ncalls>>

\* the texts a user sends in the main specification
Inbound ==
  {"hello", "I need a loan", "I need a loan of 3 lakhs", "proceed",
   "option 2", "reduce the rate", "SEND OTP",
   "proceed with option 2 at a lower rate"}

Main == 1
Next ==
  \/ \E customer_id \in CustomerIds : CreateSession(customer_id, {"s1"})
  \/ \E sid \in SessionIds, msg \in Inbound : Begin(Main, sid, msg, MaxCalls)
  \/ Master(Main)
  \/ Route(Main)
  \/ Worker(Main)
  \/ RecursionError(Main)
  \/ Return(Main)

Spec == Init /\ [][Next]_vars

\* ---- what a finished call leaves behind ----

\* the record self.sessions holds for the session the call named
Stored(c) == sessions[arg[c].session_id]
\* process_message returned its result dict (line 651)
Returned(c) == pc[c] = "idle" /\ ret[c].kind = "returned"
\* the faults met by the nodes of the call's cycle
Faults(c) == {trace[c][i].fault : i \in 1..Len(trace[c])}
\* the nodes the call's cycle ran
NodesRun(c) == {trace[c][i].node : i \in 1..Len(trace[c])}
\* assistant messages the call added to the stored log
AssistantAdded(c) ==
  Len(AssistantContents(Stored(c).conversation_history))
    - Len(AssistantContents(Val(pre[c]).conversation_history))
\* ---- claims checked under Spec ----

\* C1: every cycle reaches END after a bounded number of stage executions,
\* whatever the specialists' collaborators answer: no call ends because the
\* graph ran into its step limit.
C1_EveryCycleReachesEnd ==
  \A c \in Calls : ret[c].kind # "GraphRecursionError"

\* C3: a call in which the language-model collaborator raised still returns
\* a result, and the stored record then holds the inbound user message, has
\* last_error set and a later updated_at than before the call.
C3_LlmFailureIsAbsorbed ==
  \A c \in Calls :
    (pc[c] = "idle" /\ "llm" \in Faults(c)) =>
      /\ ret[c].kind = "returned"
      /\ \E i \in 1..Len(Stored(c).conversation_history) :
           /\ Stored(c).conversation_history[i].role = "user"
           /\ Stored(c).conversation_history[i].content = arg[c].user_message
      /\ Stored(c).last_error # None
      /\ Stored(c).updated_at > Val(pre[c]).updated_at

\* C4: a call in whose cycle a specialist's collaborator reported failure
\* still completes, the stored record has last_error set, and its
\* current_stage is the one the record had before the call.
C4_SpecialistFailureKeepsStage ==
  \A c \in Calls :
    (pc[c] = "idle" /\ Faults(c) \cap {"process_sales", "start_verification",
                                         "process_underwriting", "generate_sanction"} # {}) =>
      /\ ret[c].kind = "returned"
      /\ Stored(c).last_error # None
      /\ Stored(c).current_stage = Val(pre[c]).current_stage

\* C5 as stated: a returned call has added at most one assistant message
\* to the stored log.
C5_AtMostOneAssistantMessage ==
  \A c \in Calls : Returned(c) => AssistantAdded(c) <= 1

\* C5 (amended): a returned call whose cycle ran no specialist stage has
\* added at most one assistant message to the stored log, also when its
\* text repeats the text of the call before it.
C5_AtMostOneWithoutSpecialist ==
  \A c \in Calls :
    (Returned(c) /\ NodesRun(c) \subseteq {"master"}) => AssistantAdded(c) <= 1

\* a call that repeated the previous call's text, ran no specialist and
\* added exactly one assistant message
C5_Witness ==
  \E c \in Calls :
    /\ Returned(c)
    /\ NodesRun(c) = {"master"}
    /\ IsSet(LastUserContent(Val(pre[c])))
    /\ LastUserContent(Val(pre[c])) = Some(Chars[arg[c].user_message])
    /\ AssistantAdded(c) = 1

\* C6: the first call on a new session only greets: the stored record is
\* still in stage greeting with no directive and no requested amount, and
\* the one assistant message of its log is the greeting.
C6_FirstCallOnlyGreets ==
  \A c \in Calls :
    (Returned(c) /\ Val(pre[c]).conversation_history = <<>>) =>
      /\ Stored(c).current_stage = "greeting"
      /\ Stored(c).next_action = None
      /\ Stored(c).requested_amount = Nil
      /\ AssistantAdded(c) = 1
      /\ \A i \in 1..Len(Stored(c).conversation_history) :
           Stored(c).conversation_history[i].role = "assistant" =>
             Stored(c).conversation_history[i].content = "greeting"

\* the amount the greeting stage reads in a text
AmountIn(msg) == detect_amount(Lower(Chars[msg]))
\* the record of a call once its master node has run: in flight, then stored
After(c) == IF pc[c] = "idle" THEN Stored(c) ELSE Val(cur[c])

\* C7: a call made in stage greeting with a text that carries an amount
\* has current_stage sales_negotiation from the master node's run to the
\* stored record (it is never needs_assessment), requested_amount is the
\* amount read ('I need a loan of 3 lakhs' gives 300000), and the stored
\* record has offers when the offer computation succeeded.
C7_AmountInGreetingGoesToSales ==
  \A c \in Calls :
    ( /\ pc[c] # "idle" \/ ret[c].kind = "returned"
      /\ IsSet(pre[c])
      /\ trace[c] # <<>>
      /\ Val(pre[c]).current_stage = "greeting"
      /\ TruthyNum(AmountIn(arg[c].user_message)) ) =>
      /\ After(c).current_stage = "sales_negotiation"
      /\ After(c).requested_amount = AmountIn(arg[c].user_message)
      /\ arg[c].user_message = "I need a loan of 3 lakhs" =>
           After(c).requested_amount = Some(300000)
      /\ ( /\ pc[c] = "idle"
           /\ \E i \in 1..Len(trace[c]) :
                trace[c][i] = [node |-> "sales", fault |-> "none"] ) =>
           After(c).recommended_offers # <<>>

\* 'I need a loan of 3 lakhs' in greeting: stored in sales_negotiation with
\* 300000 and the offers
C7_Witness ==
  \E c \in Calls :
    /\ Returned(c)
    /\ Val(pre[c]).current_stage = "greeting"
    /\ arg[c].user_message = "I need a loan of 3 lakhs"
    /\ Stored(c).current_stage = "sales_negotiation"
    /\ Stored(c).requested_amount = Some(300000)
    /\ Stored(c).recommended_offers = Offers

\* C8: a call made in stage verification with a customer id the CRM knows
\* and a text asking for a code, the delivery not failing, stores a record
\* with otp_sent true and otp_attempts 0.
C8_SendOtpIssuesCode ==
  \A c \in Calls :
    ( /\ Returned(c)
      /\ Val(pre[c]).current_stage = "verification"
      /\ Val(pre[c]).customer_id \in CrmCustomers
      /\ AnyIn(Lower(Chars[arg[c].user_message]), node_otp_keywords)
      /\ "send_otp" \notin Faults(c) ) =>
      /\ Stored(c).otp_sent
      /\ Stored(c).otp_attempts = 0

\* ---- two overlapping calls on one session ----

\* the texts of the specification with two client threads
ConcInbound == {"I need a loan of 3 lakhs", "proceed"}

ConcCalls == 2

\* any thread may run the next step of its call: process_message takes no lock
NextConc ==
  \/ CreateSession(None, SessionIds)
  \/ \E c \in Calls, sid \in SessionIds, msg \in ConcInbound :
       Begin(c, sid, msg, ConcCalls)
  \/ \E c \in Calls : Master(c)
  \/ \E c \in Calls : Route(c)
  \/ \E c \in Calls : Worker(c)
  \/ \E c \in Calls : RecursionError(c)
  \/ \E c \in Calls : Return(c)

SpecConc == Init /\ [][NextConc]_vars

\* C2: calls on one session are serialized: once two threads' calls have
\* both returned, the stored log holds the inbound message of each of them
\* (at two different positions), as it would after running the two cycles
\* one after the other.
C2_BothInboundMessagesStored ==
  (Returned(1) /\ Returned(2) /\ arg[1].session_id = arg[2].session_id) =>
    \E i, j \in 1..Len(Stored(1).conversation_history) :
      /\ i # j
      /\ Stored(1).conversation_history[i].role = "user"
      /\ Stored(1).conversation_history[i].content = arg[1].user_message
      /\ Stored(1).conversation_history[j].role = "user"
      /\ Stored(1).conversation_history[j].content = arg[2].user_message

\* ---- a session found in the middle of verification ----

StageCalls == 2

\* the record of a session created for a CRM customer after the calls
\* 'I need a loan of 3 lakhs' (offers computed) and 'proceed'
InSales ==
  sales_agent_node(
    master_agent_node(
      add_message(create_initial_state("CUST001", "s1"),
                  "user", "I need a loan of 3 lakhs", None),
      TRUE),
    [success |-> TRUE, offers |-> Offers, recommended_offer |-> Offers[2],
     error |-> None])
InVerification ==
  verification_agent_node(
    master_agent_node(add_message(InSales, "user", "proceed", None), TRUE),
    [twilio |-> FALSE, send_ok |-> TRUE, otp |-> Chars["123456"],
     check |-> "approved", addr_ok |-> TRUE])

\* what the code-request and code-check branches write (lines 230-251,
\* 264-333), by provider, with no or two failed attempts so far
OtpSignals(tw) ==
  {[otp_sent |-> FALSE, otp_provider |-> None, otp_code |-> Nil,
    otp_phone |-> Nil, otp_attempts |-> 0, phone_verified |-> FALSE]}
  \cup {[otp_sent |-> FALSE, otp_provider |-> IF tw THEN "twilio" ELSE "demo",
         otp_code |-> Nil, otp_phone |-> Some(Kw["+91"] \o CrmPhone),
         otp_attempts |-> 0, phone_verified |-> TRUE]}
  \cup {[otp_sent |-> TRUE, otp_provider |-> IF tw THEN "twilio" ELSE "demo",
         otp_code |-> IF tw THEN Nil ELSE Some(code),
         otp_phone |-> Some(Kw["+91"] \o CrmPhone),
         otp_attempts |-> n, phone_verified |-> FALSE] :
          n \in {0, 2}, code \in IssuableCodes}
\* the record once the identity text has been read (lines 362-394)
KycText == "PAN: ABCDE1234F | DOB: 1990-05-10 | Email: a@b.co"
KycDone(state) ==
  update_state(
    MarkKyc(ParseKyc(add_message(state, "user", KycText, None), Chars[KycText])),
    [active_agent |-> "master", next_action |-> None])
StageRecords(tw) ==
  {update_state(k, o) :
     k \in {InVerification, KycDone(InVerification)}, o \in OtpSignals(tw)}

InitStage ==
  /\ twilio \in BOOLEAN
  /\ sessions \in {"s1" :> r : r \in StageRecords(twilio)}
  /\ pc = Idle
  /\ cur = [c \in Calls |-> Nil]
  /\ pre = [c \in Calls |-> Nil]
  /\ arg = [c \in Calls |-> NoCall]
  /\ trace = [c \in Calls |-> <<>>]
  /\ ret = [c \in Calls |-> NoRet]
  /\ ncalls = 0

\* the texts a user sends during verification
StageInbound ==
  {"SEND OTP", "123456", "my otp is 123456", KycText, "Address: 5 MG Road",
   "Address: 5 MG Road, send otp"}

NextStage ==
  \/ \E msg \in StageInbound : Begin(Main, "s1", msg, StageCalls)
  \/ Master(Main)
  \/ Route(Main)
  \/ Worker(Main)
  \/ RecursionError(Main)
  \/ Return(Main)

SpecStage == InitStage /\ [][NextStage]_vars

\* the 4-6 digit token the verification node reads in a text, Nil if none
TokenIn(msg) == EnteredCode(Strip(Chars[msg]))

C12_CodeOnlyWithFallback ==
  \A r \in {sessions[sid] : sid \in DOMAIN sessions}
             \cup {Val(cur[c]) : c \in {d \in Calls : IsSet(cur[d])}} :
    /\ r.otp_provider = "twilio" => r.otp_code = Nil
    /\ IsSet(r.otp_code) => (r.otp_provider = "demo" /\ r.otp_sent)

\* a code request answered by the external provider: sent, no code kept
C12_Witness ==
  \E c \in Calls :
    /\ Returned(c)
    /\ "verification" \in NodesRun(c)
    /\ AnyIn(Lower(Chars[arg[c].user_message]), node_otp_keywords)
    /\ Stored(c).otp_sent
    /\ Stored(c).otp_provider = "twilio"
    /\ Stored(c).otp_code = Nil
    /\ Stored(c).otp_resend_count = Val(pre[c]).otp_resend_count + 1

\* ---- a session that has finished verification ----

DocsCalls == 3

\* the record with identity and phone verified, and the record after the
\* next call ran underwriting with a given decision
Verified ==
  update_state(KycDone(InVerification),
               CHOOSE o \in OtpSignals(FALSE) : o.phone_verified)
InUnderwriting(decision) ==
  underwriting_agent_node(
    master_agent_node(add_message(Verified, "user", "hello", None), TRUE),
    [success |-> TRUE, decision |-> decision, error |-> None])

InitDocs ==
  /\ twilio = FALSE
  /\ sessions \in {"s1" :> r :
                     r \in {Verified} \cup {InUnderwriting(d) :
                                d \in {"needs_documents", "approved", "rejected",
                                       "pending"}}}
  /\ pc = Idle
  /\ cur = [c \in Calls |-> Nil]
  /\ pre = [c \in Calls |-> Nil]
  /\ arg = [c \in Calls |-> NoCall]
  /\ trace = [c \in Calls |-> <<>>]
  /\ ret = [c \in Calls |-> NoRet]
  /\ ncalls = 0

\* the salary slip uploader of the chat page (chatbot_app.py lines 509-539):
\* shown in stage document_upload, it sets the flag on the stored record in
\* place and then calls process_message with a fixed text
UploadSalarySlip(c, sid, max) ==
  /\ pc[c] = "idle"
  /\ ncalls < max
  /\ sid \in DOMAIN sessions
  /\ sessions[sid].current_stage = "document_upload"
  /\ sessions[sid].customer_id # None
  /\ \E r \in {[sessions[sid] EXCEPT !.salary_slip_uploaded = TRUE]} :
       /\ sessions' = [sessions EXCEPT ![sid] = r]
       /\ pre' = [pre EXCEPT ![c] = Some(r)]
       /\ cur' = [cur EXCEPT ![c] =
                    Some(add_message(r, "user", "Uploaded salary slip successfully", None))]
  /\ ncalls' = ncalls + 1
  /\ arg' = [arg EXCEPT ![c] = [session_id |-> sid,
                                 user_message |-> "Uploaded salary slip successfully"]]
  /\ trace' = [trace EXCEPT ![c] = <<>>]
  /\ pc' = [pc EXCEPT ![c] = "master"]
  /\ ret' = [ret EXCEPT ![c] = NoRet]
  /\ UNCHANGED twilio

NextDocs ==
  \/ \E msg \in {"hello", "proceed"} : Begin(Main, "s1", msg, DocsCalls)
  \/ UploadSalarySlip(Main, "s1", DocsCalls)
  \/ Master(Main)
  \/ Route(Main)
  \/ Worker(Main)
  \/ RecursionError(Main)
  \/ Return(Main)

SpecDocs == InitDocs /\ [][NextDocs]_vars

\* the call's master node has run and the call has not ended by an exception
InCycle(c) ==
  /\ pc[c] # "idle" \/ ret[c].kind = "returned"
  /\ IsSet(pre[c])
  /\ trace[c] # <<>>

\* C13: a call made in stage underwriting with decision needs_documents has
\* current_stage document_upload from its master node's run on and runs no
\* specialist; a call made in stage document_upload with salary_slip_uploaded
\* set has current_stage underwriting from its master node's run on, goes to
\* the underwriting node next, never runs the sanction node, and has run
\* underwriting when it returns.
C13_DocumentsThenReassessment ==
  \A c \in Calls :
    /\ ( /\ InCycle(c)
         /\ Val(pre[c]).current_stage = "underwriting"
         /\ Val(pre[c]).underwriting_decision = "needs_documents" ) =>
         /\ After(c).current_stage = "document_upload"
         /\ NodesRun(c) = {"master"}
         /\ pc[c] \notin WorkerNodes
    /\ ( /\ InCycle(c)
         /\ Val(pre[c]).current_stage = "document_upload"
         /\ Val(pre[c]).salary_slip_uploaded ) =>
         /\ After(c).current_stage = "underwriting"
         /\ "sanction" \notin NodesRun(c)
         /\ pc[c] # "sanction"
         /\ (Len(trace[c]) = 1 /\ pc[c] \notin {"master", "route"}) => pc[c] = "underwriting"
         /\ Returned(c) =>
              \E i \in 1..Len(trace[c]) :
                trace[c][i] = [node |-> "underwriting", fault |-> "none"]

\* the upload call after a needs_documents decision: it returned from stage
\* document_upload with the flag set, re-ran underwriting and stored stage
\* underwriting
C13_Witness ==
  \E c \in Calls :
    /\ Returned(c)
    /\ arg[c].user_message = "Uploaded salary slip successfully"
    /\ Val(pre[c]).current_stage = "document_upload"
    /\ Val(pre[c]).underwriting_decision = "needs_documents"
    /\ Val(pre[c]).salary_slip_uploaded
    /\ Stored(c).current_stage = "underwriting"
    /\ NodesRun(c) = {"master", "underwriting"}

\* ---- the interaction counter and the log ----

C15_LogIsAppendOnly ==
  [][ /\ \A sid \in DOMAIN sessions :
           /\ Len(sessions[sid].conversation_history)
                <= Len(sessions'[sid].conversation_history)
           /\ SubSeq(sessions'[sid].conversation_history, 1,
                     Len(sessions[sid].conversation_history))
                = sessions[sid].conversation_history
      /\ \A c \in Calls :
           (IsSet(cur[c]) /\ IsSet(cur'[c])) =>
             /\ Len(Val(cur[c]).conversation_history)
                  <= Len(Val(cur'[c]).conversation_history)
             /\ SubSeq(Val(cur'[c]).conversation_history, 1,
                       Len(Val(cur[c]).conversation_history))
                  = Val(cur[c]).conversation_history ]_vars

\* the entries the stages of the call's cycle have added to the log so far
\* (the inbound message, which process_message adds itself, not counted)
StageEntries(c) ==
  Len(After(c).conversation_history) - Len(Val(pre[c]).conversation_history) - 1
\* the executions of the given nodes in the call's cycle
Runs(c, nodes) == Cardinality({i \in 1..Len(trace[c]) : trace[c][i].node \in nodes})

C17_UnknownSessionRejected ==
  [][ (ncalls' = ncalls + 1) =>
        /\ \A c \in Calls :
             (pc[c] = "idle" /\ pc'[c] # "idle") =>
               arg'[c].session_id \in DOMAIN sessions
        /\ (pc' = pc) =>
             /\ sessions' = sessions
             /\ cur' = cur
             /\ \E c \in Calls :
                  /\ pc[c] = "idle"
                  /\ arg'[c].session_id \notin DOMAIN sessions
                  /\ ret'[c] = [kind |-> "rejected", success |-> FALSE,
                                error |-> "Session not found"]
                  /\ get_session_state(arg'[c].session_id) = Nil ]_vars

\* a rejected call on an unknown id while another session exists
C17_Witness ==
  \E c \in Calls :
    /\ pc[c] = "idle"
    /\ ret[c].kind = "rejected"
    /\ ~ret[c].success
    /\ arg[c].session_id \notin DOMAIN sessions
    /\ get_session_state(arg[c].session_id) = Nil
    /\ DOMAIN sessions # {}

\* C18: a session's stored record changes only in the step that ends a
\* process_message call made with that session's id, whatever the other
\* thread is doing.
C18_OtherSessionsUntouched ==
  [][ \A sid \in DOMAIN sessions :
        sessions'[sid] # sessions[sid] =>
          \E c \in Calls :
            /\ arg[c].session_id = sid
            /\ pc[c] = "end"
            /\ pc'[c] = "idle" ]_vars

\* both threads have completed a call, on different sessions, and each
\* session holds what the call made with its id stored
C18_Witness ==
  /\ Returned(1)
  /\ Returned(2)
  /\ arg[1].session_id # arg[2].session_id
  /\ Stored(1) = ret[1].state
  /\ Stored(2) = ret[2].state
  /\ Stored(1).conversation_history # Stored(2).conversation_history

RouteRecords ==
  {create_initial_state(None, "s1")}
  \cup {update_state(InVerification, o) :
          o \in {x \in OtpSignals(FALSE) :
                   /\ ~x.phone_verified
                   /\ x.otp_attempts = 0
                   /\ x.otp_code \in {Nil, Some(Chars["123456"])}}}
  \cup {[sanction_agent_node(InUnderwriting("approved"),
                              [success |-> TRUE, error |-> None])
           EXCEPT !.application_status = st] :
          st \in {"approved", "rejected", "abandoned", "in_progress"}}

\* the graph is about to evaluate the conditional edge on a record: a stored
\* one, one with a user message added at the end, or one with a user message
\* and a reply added; each with any directive
InitRoute ==
  /\ twilio = FALSE
  /\ \E stored \in RouteRecords,
        tail \in {<<"stored", None>>, <<"asked", "SEND OTP">>, <<"asked", "123456">>,
                  <<"answered", "SEND OTP">>},
        a \in {None, "delegate_to_sales", "delegate_to_verification",
               "delegate_to_underwriting", "delegate_to_sanction"} :
       \E r \in {[ (CASE tail[1] = "stored" -> stored
                      [] tail[1] = "asked" -> add_message(stored, "user", tail[2], None)
                      [] tail[1] = "answered" ->
                           add_message(add_message(stored, "user", tail[2], None),
                                       "assistant", "reply", "master"))
                   EXCEPT !.next_action = a ]} :
         /\ sessions = "s1" :> r
         /\ cur = [c \in Calls |-> IF c = Main THEN Some(r) ELSE Nil]
         /\ pre = [c \in Calls |-> IF c = Main THEN Some(r) ELSE Nil]
  /\ pc = [c \in Calls |-> IF c = Main THEN "route" ELSE "idle"]
  /\ arg = [c \in Calls |-> IF c = Main
                               THEN [session_id |-> "s1", user_message |-> "hello"]
                               ELSE NoCall]
  /\ trace = [c \in Calls |-> <<>>]
  /\ ret = [c \in Calls |-> NoRet]
  /\ ncalls = 1

SpecRoute == InitRoute /\ [][Route(Main)]_vars

C23_NeedsAssessmentHandsAmountToSales ==
  \A c \in Calls :
    ( /\ InCycle(c)
      /\ Val(pre[c]).current_stage = "needs_assessment"
      /\ \/ TruthyNum(Val(pre[c]).requested_amount)
         \/ TruthyNum(AmountIn(arg[c].user_message)) ) =>
      /\ After(c).current_stage = "sales_negotiation"
      /\ After(c).requested_amount =
           IF TruthyNum(Val(pre[c]).requested_amount)
             THEN Val(pre[c]).requested_amount
             ELSE AmountIn(arg[c].user_message)
      /\ Returned(c) => "sales" \in NodesRun(c)

\* C24: a call made in stage sales_negotiation: a text with an acceptance
\* phrase has current_stage verification from the master node's run on and
\* goes to the verification stage, also when it selects an option or
\* negotiates as well; otherwise a text that selects an option or a tenure,
\* or negotiates, goes to the sales stage with current_stage unchanged;
\* otherwise no specialist runs and current_stage stays sales_negotiation.
C24_SalesNegotiationRules ==
  \A c \in Calls :
    ( /\ InCycle(c)
      /\ Val(pre[c]).current_stage = "sales_negotiation" ) =>
      LET text == Lower(Chars[arg[c].user_message])
          accepts ==
            \/ AnyIn(text, accept_terms)
            \/ arg[c].user_message
                 \in {"proceed", "proceed with option 2 at a lower rate"}
          selects ==
            \/ Search(option_1_9_pattern, text).ok
            \/ Search(tenure_pattern, text).ok
            \/ AnyIn(text, negotiation_cues)
            \/ Search(percent_pattern, text).ok
            \/ arg[c].user_message \in {"option 2", "reduce the rate"}
      IN IF accepts
           THEN /\ After(c).current_stage = "verification"
                /\ Len(trace[c]) >= 2 => trace[c][2].node = "verification"
                /\ "sales" \notin NodesRun(c)
                /\ Returned(c) => "verification" \in NodesRun(c)
         ELSE IF selects
           THEN /\ After(c).current_stage = "sales_negotiation"
                /\ Len(trace[c]) >= 2 => trace[c][2].node = "sales"
                /\ Returned(c) => NodesRun(c) = {"master", "sales"}
         ELSE /\ After(c).current_stage = "sales_negotiation"
              /\ NodesRun(c) = {"master"}
              /\ pc[c] \notin WorkerNodes

\* an acceptance that also names an option and a lower rate went to
\* verification, not to sales
C24_Witness ==
  \E c \in Calls :
    /\ Returned(c)
    /\ Val(pre[c]).current_stage = "sales_negotiation"
    /\ arg[c].user_message = "proceed with option 2 at a lower rate"
    /\ Stored(c).current_stage = "verification"
    /\ NodesRun(c) = {"master", "verification"}

\* C25: a call made in stage verification has current_stage underwriting
\* after its master node's run exactly when, at the start of the call,
\* kyc_verified and phone_verified were both set and the text is neither a
\* code request nor, with otp_sent set, a token of 4 to 6 digits; it has
\* current_stage verification otherwise; and no record, stored or in
\* flight, has current_stage underwriting with either flag unset.
C25_UnderwritingOnlyWhenVerified ==
  /\ \A c \in Calls :
       ( /\ InCycle(c)
         /\ Val(pre[c]).current_stage = "verification" ) =>
         LET text == Lower(Chars[arg[c].user_message])
             code_request ==
               \/ AnyIn(text, master_otp_keywords)
               \/ arg[c].user_message \in {"SEND OTP", "my otp is 123456"}
             token ==
               /\ Val(pre[c]).otp_sent
               /\ \/ Search(code_pattern, text).ok
                  \/ arg[c].user_message = "123456"
             advances ==
               /\ Val(pre[c]).kyc_verified
               /\ Val(pre[c]).phone_verified
               /\ ~code_request
               /\ ~token
         IN /\ After(c).current_stage = "underwriting" <=> advances
            /\ After(c).current_stage \in {"verification", "underwriting"}
            /\ (advances /\ Len(trace[c]) >= 2) => trace[c][2].node = "underwriting"
            /\ ~advances => "underwriting" \notin NodesRun(c)
  /\ \A sid \in DOMAIN sessions :
       sessions[sid].current_stage = "underwriting" =>
         sessions[sid].kyc_verified /\ sessions[sid].phone_verified
  /\ \A c \in Calls :
       (IsSet(cur[c]) /\ Val(cur[c]).current_stage = "underwriting") =>
         Val(cur[c]).kyc_verified /\ Val(cur[c]).phone_verified

\* a record with both flags set advanced on an address text and the
\* underwriting stage ran
C25_Witness ==
  \E c \in Calls :
    /\ Returned(c)
    /\ Val(pre[c]).current_stage = "verification"
    /\ Val(pre[c]).kyc_verified /\ Val(pre[c]).phone_verified
    /\ arg[c].user_message = "Address: 5 MG Road"
    /\ Stored(c).current_stage = "underwriting"
    /\ "underwriting" \in NodesRun(c)

\* C26: a call made in stage underwriting: with decision approved it goes
\* to the sanction stage next and has run it when it returns; with decision
\* rejected it has current_stage closure after its master node's run and
\* runs no specialist; with decision pending or unset it keeps current_stage
\* underwriting and runs no specialist.
C26_UnderwritingOutcomes ==
  \A c \in Calls :
    ( /\ InCycle(c)
      /\ Val(pre[c]).current_stage = "underwriting" ) =>
      LET decision == Val(pre[c]).underwriting_decision
      IN /\ decision = "approved" =>
              /\ Len(trace[c]) >= 2 => trace[c][2].node = "sanction"
              /\ After(c).current_stage \in {"sanction_generation", "closure"}
              /\ Returned(c) => /\ NodesRun(c) = {"master", "sanction"}
                                /\ Stored(c).current_stage = "closure"
         /\ decision = "rejected" =>
              /\ After(c).current_stage = "closure"
              /\ NodesRun(c) = {"master"}
              /\ pc[c] \notin WorkerNodes
         /\ decision \in {"pending", None} =>
              /\ After(c).current_stage = "underwriting"
              /\ NodesRun(c) = {"master"}
              /\ pc[c] \notin WorkerNodes

\* an approved record had its sanction stage run in the next call
C26_Witness ==
  \E c \in Calls :
    /\ Returned(c)
    /\ Val(pre[c]).current_stage = "underwriting"
    /\ Val(pre[c]).underwriting_decision = "approved"
    /\ "sanction" \in NodesRun(c)
    /\ Stored(c).sanction_letter_url # None

\* C27: once a stored record has current_stage closure it keeps it in every
\* later state, and a call made in stage closure has current_stage closure
\* throughout, runs the master node only and is never sent to a specialist.
C27_ClosureIsAbsorbing ==
  /\ [][\A sid \in DOMAIN sessions :
          sessions[sid].current_stage = "closure" =>
            /\ sid \in DOMAIN sessions'
            /\ sessions'[sid].current_stage = "closure"]_vars
  /\ [](\A c \in Calls :
          (IsSet(pre[c]) /\ Val(pre[c]).current_stage = "closure") =>
            /\ pc[c] \notin WorkerNodes
            /\ NodesRun(c) \subseteq {"master"}
            /\ IsSet(cur[c]) => Val(cur[c]).current_stage = "closure")

\* a call made on a closed application returned with the record still closed
\* and only the master node run
C27_Witness ==
  \E c \in Calls :
    /\ Returned(c)
    /\ Val(pre[c]).current_stage = "closure"
    /\ arg[c].user_message = "proceed"
    /\ Stored(c).current_stage = "closure"
    /\ NodesRun(c) = {"master"}

C29_TriggeredChecksAllTakeEffect ==
  \A c \in Calls :
    ( /\ Returned(c)
      /\ Val(pre[c]).current_stage = "verification"
      /\ TruthyStr(Val(pre[c]).customer_id)
      /\ Runs(c, {"verification"}) = 1 ) =>
      LET text == Strip(Chars[arg[c].user_message])
          h == After(c).conversation_history
          AddedContents(d) ==
            {h[i].content : i \in (Len(Val(pre[d]).conversation_history) + 2)..Len(h)}
      IN /\ NotInitialized(Val(pre[c])) =>
              "verification_steps" \in AddedContents(c)
         /\ AnyIn(Lower(text), node_otp_keywords) =>
              AddedContents(c) \cap {"otp_sent_demo", "otp_sent_twilio",
                                     "otp_send_failed"} # {}
         /\ (Val(pre[c]).otp_sent /\ TruthyText(EnteredCode(text))) =>
              AddedContents(c) \cap {"phone_verified", "incorrect_otp",
                                     "max_attempts", "no_otp_found"} # {}
         /\ AddressText(text) # <<>> =>
              AddedContents(c) \cap {"address_verified", "address_mismatch"} # {}

AmountCalls == 1
\* the texts of the amount examples, and one without a number
AmountTexts ==
  {"I need 3 lakh rupees", "need 50k", "requesting 250000", "I need 2 loans", "hello"}

NextAmount ==
  \/ \E customer_id \in CustomerIds : CreateSession(customer_id, {"s1"})
  \/ \E msg \in AmountTexts : Begin(Main, "s1", msg, AmountCalls)
  \/ Master(Main)
  \/ Route(Main)
  \/ Worker(Main)
  \/ Return(Main)

SpecAmount == Init /\ [][NextAmount]_vars

\* C32: a call made in stage greeting on a record without an amount reads
\* 300000 from 'I need 3 lakh rupees', 50000 from 'need 50k' and 250000 from
\* 'requesting 250000' and goes to sales_negotiation; it does not multiply
\* the 2 of 'I need 2 loans' by 100,000; and a text without a number
\* ('hello') leaves requested_amount unset and current_stage greeting.
C32_AmountRulesInOrder ==
  \A c \in Calls :
    ( /\ InCycle(c)
      /\ Val(pre[c]).current_stage = "greeting"
      /\ ~TruthyNum(Val(pre[c]).requested_amount) ) =>
      LET msg == arg[c].user_message
          reads(n) == /\ After(c).requested_amount = Some(n)
                      /\ After(c).current_stage = "sales_negotiation"
      IN /\ msg = "I need 3 lakh rupees" => reads(300000)
         /\ msg = "need 50k" => reads(50000)
         /\ msg = "requesting 250000" => reads(250000)
         /\ msg = "I need 2 loans" => After(c).requested_amount # Some(200000)
         /\ msg = "hello" => /\ After(c).requested_amount = Nil
                             /\ After(c).current_stage = "greeting"

C34_RouterSeesAssistantLast ==
  \A c \in Calls :
    /\ pc[c] = "route" =>
         LET state == Val(cur[c])
         IN /\ state.conversation_history # <<>>
            /\ LastMessage(state).role = "assistant"
            /\ route_master_agent(state) # "master"
            /\ route_master_agent(state) \in WorkerNodes =>
                 state.next_action \in
                   {"delegate_to_sales", "delegate_to_verification",
                    "delegate_to_underwriting", "delegate_to_sanction"}
    /\ (pc[c] = "master" /\ trace[c] # <<>>) =>
         trace[c][Len(trace[c])].node \in WorkerNodes

\* the router evaluated a second time in a verification cycle, after the
\* verification stage answered a code request
C34_Witness ==
  \E c \in Calls :
    /\ pc[c] = "route"
    /\ Len(trace[c]) = 3
    /\ trace[c][2].node = "verification"
    /\ arg[c].user_message = "SEND OTP"
    /\ Val(cur[c]).current_stage = "verification"
    /\ LastMessage(Val(cur[c])).agent = "verification"

\* C35: in every record, stored or in flight, total_interactions is the
\* number of entries of the conversation log.
C35_InteractionsCountLogEntries ==
  /\ \A sid \in DOMAIN sessions :
       sessions[sid].total_interactions = Len(sessions[sid].conversation_history)
  /\ \A c \in Calls :
       IsSet(cur[c]) =>
         Val(cur[c]).total_interactions = Len(Val(cur[c]).conversation_history)

\* a stored record whose log has user, master and sales entries, three
\* calls after the session was created
C35_Witness ==
  \E sid \in DOMAIN sessions :
    /\ ncalls = 3
    /\ sessions[sid].total_interactions >= 6
    /\ \E i, j \in 1..Len(sessions[sid].conversation_history) :
         /\ sessions[sid].conversation_history[i].role = "user"
         /\ sessions[sid].conversation_history[j].agent = "sales"

\* C36: the record a returned call hands back is the record it read, then
\* the call's user message, then one or more assistant messages and
\* nothing else, and the response is the content of its last entry.
C36_CallAddsUserThenReplies ==
  \A c \in Calls :
    Returned(c) =>
      LET h == ret[c].state.conversation_history
          n == Len(Val(pre[c]).conversation_history)
      IN /\ Len(h) >= n + 2
         /\ SubSeq(h, 1, n) = Val(pre[c]).conversation_history
         /\ h[n + 1] = ConversationMessage("user", arg[c].user_message, None)
         /\ \A i \in (n + 2)..Len(h) : h[i].role = "assistant"
         /\ ret[c].response = h[Len(h)].content

\* a second call whose cycle ran sales: the response is the sales message,
\* not the master's reply nor an answer of the call before
C36_Witness ==
  \E c \in Calls :
    /\ Returned(c)
    /\ Val(pre[c]).conversation_history # <<>>
    /\ NodesRun(c) = {"master", "sales"}
    /\ ret[c].response = "offers_presentation"
    /\ Len(ret[c].state.conversation_history)
         = Len(Val(pre[c]).conversation_history) + 3

\* C37: while a call's cycle is in flight, and after it ended by an
\* exception (a collaborator raised or the step limit was exceeded), the
\* stored record of its session is the record the call read: neither the
\* inbound message nor any stage's change is in it.
C37_FailedCycleStoresNothing ==
  \A c \in Calls :
    (IsSet(pre[c]) /\ ret[c].kind # "returned") =>
      Stored(c) = Val(pre[c])

\* a cycle ended by the step limit after a stage kept failing: the stored
\* record has neither the user message nor the stage's last_error
C37_Witness ==
  \E c \in Calls :
    /\ pc[c] = "idle"
    /\ ret[c].kind = "GraphRecursionError"
    /\ Len(trace[c]) = RecursionLimit
    /\ arg[c].user_message = "proceed"
    /\ Stored(c) = Val(pre[c])
    /\ Stored(c).last_error = None
    /\ Stored(c).current_stage = "sales_negotiation"

\* C38: in every record, stored or in flight, otp_attempts is 0, 1 or 2 and
\* is above 0 only while otp_sent is set; and a returned call whose cycle
\* ran the verification stage stores otp_attempts 0 when its text asked for
\* a code, when it verified the phone, and when it ended the code's validity
\* (otp_sent went from set to unset).
C38_AttemptsBounded ==
  /\ \A sid \in DOMAIN sessions :
       /\ sessions[sid].otp_attempts \in 0..2
       /\ sessions[sid].otp_attempts > 0 => sessions[sid].otp_sent
  /\ \A c \in Calls :
       IsSet(cur[c]) =>
         /\ Val(cur[c]).otp_attempts \in 0..2
         /\ Val(cur[c]).otp_attempts > 0 => Val(cur[c]).otp_sent
  /\ \A c \in Calls :
       ( /\ Returned(c)
         /\ "verification" \in NodesRun(c)
         /\ \/ AnyIn(Lower(Strip(Chars[arg[c].user_message])), node_otp_keywords)
            \/ ~Val(pre[c]).phone_verified /\ Stored(c).phone_verified
            \/ Val(pre[c]).otp_sent /\ ~Stored(c).otp_sent ) =>
         Stored(c).otp_attempts = 0

\* a third wrong code: the count went from 2 to 0 and the code is no
\* longer valid
C38_Witness ==
  \E c \in Calls :
    /\ Returned(c)
    /\ Val(pre[c]).otp_sent
    /\ Val(pre[c]).otp_attempts = 2
    /\ Val(pre[c]).otp_code = Some(<<"6", "5", "4", "3", "2", "1">>)
    /\ arg[c].user_message = "123456"
    /\ Stored(c).otp_attempts = 0
    /\ ~Stored(c).otp_sent
    /\ ~Stored(c).phone_verified

C40_PastSalesOnlyWithOffers ==
  \A sid \in DOMAIN sessions :
    sessions[sid].current_stage \in
      {"verification", "underwriting", "document_upload",
       "sanction_generation", "closure"} =>
      /\ TruthyNum(sessions[sid].requested_amount)
      /\ sessions[sid].recommended_offers # <<>>

====
